---- MODULE Spec2Model ----
(***************************************************************************)
(* Session, token-lifecycle, lockout, rate-limit and cache-coherence model *)
(* of the todo service: AuthController (src/README.md), User and Todo      *)
(* (src/unnamed/part_004), RedisManager (src/src/config/redis.js),         *)
(* the security middleware (src/src/middleware/security.js), the todo      *)
(* routes (src/src/routes/todos.js) and the GraphQL resolvers              *)
(* (src/unnamed/part_002).                                                 *)
(*                                                                         *)
(* Time is the wall clock in whole seconds (Math.floor(Date.now()/1000)).  *)
(* A token is the pair (account id, iat): jwt.sign is deterministic, so    *)
(* two tokens signed for the same account in the same second are the same  *)
(* string.                                                                 *)
(***************************************************************************)
EXTENDS Integers, Sequences, FiniteSets, TLC

\* ------------------------------------------------------------------ bounds
\* Seconds of wall-clock time the session specification explores.
MaxTime == 2
\* JWT_EXPIRES_IN in seconds (process.env.JWT_EXPIRES_IN; the default is 7d).
TokenLifetime == 2
\* Login requests the scenario client of the login specification sends in one
\* window of the route limiter.
MaxLogins == 11
\* Quarters of an hour the login specification explores.
LoginQuarters == 2
\* Registration requests the client of the registration specification sends.
MaxRegs == 4
\* Hours the registration specification explores.
RegHours == 1
\* Todo mutations explored per account.
MaxWrites == 1
\* Periods of two minutes the cache specification explores.
CachePeriods == 1
\* The value up to which the RedisManager specification increments a counter.
MaxCount == 3
\* Characters of an account id in the invalidation specification (a UUID has 36).
IdLen == 2
\* Cache entries Redis holds at a time in the invalidation specification.
MaxEntries == 2
\* Login requests the second worker serves in the workers specification.
MaxPeerLogins == 2
\* Hits of rateLimits.general the counting specification explores.
MaxCounted == 4
\* Quarters of an hour the window specification explores.
WindowQuarters == 5
\* Seconds of wall-clock time the mutation specification explores.
MutateSeconds == 1
\* Requests the client of the rate-check specification sends to the routes behind
\* rateLimits.auth.
MaxRateRequests == 3

\* Login requests on one account that run side by side (attempts specification).
MaxConcurrent == 3
\* Failed logins the attempts specification follows.
MaxFailures == 6

\* resetPassword requests that run side by side (reset specification).
MaxResets == 2
\* Reset tokens generated in the reset specification.
MaxTokens == 2

\* The largest maxRetries withTransaction is called with (its default is 3).
MaxRetriesArg == 3

\* ------------------------------------------------------- program constants
\* TTL of session:{id} and user_session:{id}: 7 * 24 * 60 * 60.
SessionTtl == 604800
\* TTL of the user:{id} cache entry.
UserCacheTtl == 1800
\* failed_login_attempts >= 5 locks the account.
LockThreshold == 5
\* locked_until = now + 30 * 60 * 1000 ms.
LockSeconds == 1800
\* loginAttempts >= 10 is rejected with LOGIN_RATE_LIMIT.
LoginAttemptsMax == 10
\* TTL of login_attempts:{ip}, registration:{ip}, password_reset:{ip}.
HourSeconds == 3600
\* registrationCount >= 3 is rejected with REGISTRATION_RATE_LIMIT.
RegMax == 3
\* The registration requests sent together ("Make 4 registration requests").
RegBatch == 4
\* cacheMiddleware(120) of GET /api/todos and the TTL of todos:{userId}:{options}.
ListTtl == 120
\* cacheMiddleware(600) of GET /api/todos/categories and the TTL of user_categories:{userId}.
CategoriesTtl == 600
\* rateLimits.auth: windowMs = 15 * 60 * 1000.
AuthWindow == 900
\* rateLimits.general: max = 100 (its window is 15 minutes, as that of rateLimits.auth).
GeneralMax == 100
\* rateLimits.auth: max = 5.
AuthMax == 5
\* resetCount >= 5 is rejected with RESET_RATE_LIMIT.
ResetMax == 5
\* password_reset_expires = now + 3600000 ms.
ResetTokenSeconds == 3600
\* requestCount >= 30 is rejected by the GraphQL rate-limit plugin.
GraphqlMax == 30
\* TTL of graphql:{ip}.
GraphqlWindow == 60

\* The accounts of the users table.
Users == {1, 2}
\* The account whose sessions the session specification follows: the session keys
\* of two accounts never meet (every key carries the account id or the token).
SessionUsers == {1}
\* Client addresses (req.ip).
Clients == {1}
\* The clients use two passwords, 0 and 1; every account starts with password 0.
OtherPassword(p) == 1 - p

VARIABLES
  now,          \* wall clock, seconds
  horizon,      \* the last second the specification explores (fixed by Init)
  isConnected,  \* RedisManager.isConnected
  store,        \* the Redis keyspace: key -> [val, exp]
  users,        \* the users table: id -> row
  issued,       \* history: tokens returned in a 200/201 response
  revokedOk,    \* history: tokens for which logout or refresh returned success
  revokedUp,    \* history: ... and the store was connected during that request
  stalePw,      \* history: tokens issued in an earlier second than a successful
                \*          password change of their account
  resp,         \* the last response sent (session and login specifications)
  limiter,      \* the memory store of rateLimits.auth for the key `${ip}:auth`
  hist,         \* history of the login scenario of one client
  regs,         \* the registration requests: position in AuthController.register,
                \*   the counter value read, the new account's id, the response
  regHist,      \* history of the registration scenario
  db,           \* the todos table: account -> version of the account's rows
  reads,        \* the cached GET requests in flight, one per account
  seen,         \* history: the last answer to a cached GET request
  ret,          \* what the last direct call of a RedisManager method (or of
                \*   User.findById) handed to its caller
  trx,          \* the bulk mutation in flight of each account: its position in
                \*   withTransaction's callback
  general,      \* the memory store of rateLimits.general for the key `${ip}`
                \*   (counted in the counting specification)
  peer,         \* the memory store of rateLimits.auth for the key `${ip}:auth` in a
                \*   second worker process (workers specification)
  logins,       \* the login requests in flight on one account: position in
                \*   AuthController.login and what the request has read
  failures,     \* history: failed logins recorded since the last successful one
  wt,           \* the call of withTransaction in progress: its position in the
                \*   loop, retries, and the history of the callback's runs
  rows,         \* the rows of the todos table of account 1 (round-trip specification)
  answers,      \* history: the list returned by the read that filled the cache
                \*   entry of each operation, and by the last read answered from it
  resets,       \* the resetPassword requests in flight: position in
                \*   AuthController.resetPassword, the token and password sent
  resetTokens   \* the password_reset_token column of account 1, and history: the
                \*   tokens generated and the resets each was accepted for

\* The state of the requests that run side by side in the later specifications.
inFlight == <<logins, failures, wt, rows, answers, resets, resetTokens>>

vars == <<now, horizon, isConnected, store, users, issued, revokedOk, revokedUp, stalePw, resp,
          limiter, hist, regs, regHist, db, reads, seen, ret, trx, general, peer, inFlight>>

\* What the requests of the session specification leave alone.
nonSession == <<limiter, hist, regs, regHist, db, reads, seen, ret, trx, general, peer, inFlight>>
\* What the requests of the login specification leave alone.
nonLogin == <<revokedOk, revokedUp, stalePw, regs, regHist, db, reads, seen, ret, trx, general, peer, inFlight>>
\* What the requests of the registration specification leave alone.
nonRegister == <<revokedOk, revokedUp, stalePw, resp, hist, db, reads, seen, ret, trx, general, peer, inFlight>>
\* What the requests of the cache specification leave alone.
nonCache == <<users, issued, revokedOk, revokedUp, stalePw, resp, limiter, hist, regs, regHist, ret, trx, general, peer, inFlight>>

\* ------------------------------------------------------------------ tokens
NoToken == [id |-> 0, iat |-> 0]

\* User.generateJWT: payload id (and identity fields, constant per account here),
\* iat = now, exp = iat + JWT_EXPIRES_IN.
GenerateJWT(u) == [id |-> u, iat |-> now]

\* The exp claim of a token (jwt.decode(token).exp).
Exp(t) == t.iat + TokenLifetime

\* jwt.verify: TokenExpiredError once the clock has reached exp.
JwtExpired(t) == now >= Exp(t)

\* ---------------------------------------------------------------- RedisManager
Key(p, u, i) == [p |-> p, u |-> u, i |-> i]
BlacklistKey(t) == Key("blacklist", t.id, t.iat)
SessionKey(u) == Key("session", u, 0)
UserSessionKey(u) == Key("user_session", u, 0)
UserKey(u) == Key("user", u, 0)
LoginKey(c) == Key("login_attempts", c, 0)

\* A key Redis still holds: SETEX key ttl expires the key ttl seconds after the write.
Live(s, k) == k \in DOMAIN s /\ s[k].exp > now

\* RedisManager.get returned a value (connected, key present, value truthy).
Hit(s, k) == isConnected /\ Live(s, k)

\* A counter read that sees the key although Redis is not connected.
GetCountStale(s, k) == IF Live(s, k) THEN s[k].val ELSE 0

\* `await redisManager.get(key) || 0` of the counters.
GetCount(s, k) == IF Hit(s, k) THEN s[k].val ELSE 0

\* RedisManager.exists.
Exists(s, k) == isConnected /\ Live(s, k)

\* The second a key written now with SETEX ttl expires. A key that outlives the last
\* explored second is recorded as expiring right after it: no step can tell the two apart.
ExpiresAt(ttl) == IF now + ttl > horizon THEN horizon + 1 ELSE now + ttl

\* RedisManager.set: SETEX; not connected (or ttl <= 0, which Redis refuses): no write.
RedisSet(s, k, v, ttl) ==
  IF isConnected /\ ttl > 0
    THEN [x \in DOMAIN s \cup {k} |-> IF x = k THEN [val |-> v, exp |-> ExpiresAt(ttl)] ELSE s[x]]
    ELSE s

\* RedisManager.del.
RedisDel(s, k) ==
  IF isConnected THEN [x \in DOMAIN s \ {k} |-> s[x]] ELSE s

\* RedisManager.deletePattern for a pattern without wildcard: KEYS then DEL.
DeletePatternExact(s, k) ==
  IF isConnected THEN [x \in DOMAIN s \ {k} |-> s[x]] ELSE s

\* Redis drops the keys whose TTL has elapsed at time t.
Expire(s, t) == [x \in {k \in DOMAIN s : s[k].exp > t} |-> s[x]]

\* ------------------------------------------------------------ token validation
\* A bearer string that is no JWT signed with JWT_SECRET ("invalid-token", a token
\* signed with another secret): string number i. It carries no account.
Malformed(i) == [id |-> -1, iat |-> i]

\* jwt.verify throws JsonWebTokenError: format and signature are examined before
\* the exp claim.
JwtInvalid(t) == t.id < 0

\* authenticateToken with jwt.verify ahead of the blacklist lookup.
AuthenticateTokenVerifyFirst(t) ==
  IF t = NoToken THEN "TOKEN_REQUIRED"
  ELSE IF JwtInvalid(t) THEN "TOKEN_INVALID"
  ELSE IF JwtExpired(t) THEN "TOKEN_EXPIRED"
  ELSE IF Exists(store, BlacklistKey(t)) THEN "TOKEN_REVOKED"
  ELSE "OK"

\* authenticateToken (REST): the outcome code for bearer token t.
AuthenticateToken(t) ==
  IF t = NoToken THEN "TOKEN_REQUIRED"
  ELSE IF Exists(store, BlacklistKey(t)) THEN "TOKEN_REVOKED"
  ELSE IF JwtInvalid(t) THEN "TOKEN_INVALID"
  ELSE IF JwtExpired(t) THEN "TOKEN_EXPIRED"
  ELSE "OK"

\* getContext (GraphQL): context.user is set (TRUE) or left null (FALSE).
GetContextUser(t) ==
  /\ t # NoToken
  /\ ~Exists(store, BlacklistKey(t))
  /\ ~JwtInvalid(t)
  /\ ~JwtExpired(t)

\* ------------------------------------------------------------------- User
\* User.isLocked: lockedUntil && new Date() < new Date(lockedUntil).
IsLocked(row) == row.lockedUntil # 0 /\ now < row.lockedUntil

\* recordLoginAttempt with a lock of fifteen minutes.
RecordLoginAttemptShortLock(row, success, ip) ==
  IF success
    THEN [row EXCEPT !.failed = 0, !.lockedUntil = 0, !.lastLoginAt = now, !.lastLoginIp = ip]
    ELSE LET n == row.failed + 1
         IN [row EXCEPT !.failed = n,
                        !.lockedUntil = IF n >= LockThreshold
                                          THEN now + AuthWindow
                                          ELSE row.lockedUntil,
                        !.lastLoginIp = ip]

\* recordLoginAttempt whose success branch leaves failed_login_attempts alone.
RecordLoginAttemptKeepsCount(row, success, ip) ==
  IF success
    THEN [row EXCEPT !.lockedUntil = 0, !.lastLoginAt = now, !.lastLoginIp = ip]
    ELSE LET n == row.failed + 1
         IN [row EXCEPT !.failed = n,
                        !.lockedUntil = IF n >= LockThreshold
                                          THEN now + LockSeconds
                                          ELSE row.lockedUntil,
                        !.lastLoginIp = ip]

\* User.recordLoginAttempt: the row after the UPDATE. last_login_ip is written on
\* success and on failure; last_login_at, the counter reset and the cleared lock
\* only on success.
RecordLoginAttempt(row, success, ip) ==
  IF success
    THEN [row EXCEPT !.failed = 0, !.lockedUntil = 0, !.lastLoginAt = now, !.lastLoginIp = ip]
    ELSE LET n == row.failed + 1
         IN [row EXCEPT !.failed = n,
                        !.lockedUntil = IF n >= LockThreshold
                                          THEN now + LockSeconds
                                          ELSE row.lockedUntil,
                        !.lastLoginIp = ip]

\* User.findById: the row the handler works with (cache first) and the store after
\* the cache fill.
FindByIdRow(s, u) == IF Hit(s, UserKey(u)) THEN s[UserKey(u)].val ELSE users[u]
FindByIdStore(s, u) ==
  IF Hit(s, UserKey(u)) THEN s ELSE RedisSet(s, UserKey(u), users[u], UserCacheTtl)

\* No bulk mutation of the account in flight.
NoTrx == [pc |-> "idle", op |-> "none"]

\* A response: the operation, the account it named, status and code, the bearer
\* token presented with the request and the token returned in the body.
Response(op, who, status, code, presented, returned) ==
  [op |-> op, who |-> who, status |-> status, code |-> code,
   presented |-> presented, returned |-> returned]


\* ------------------------------------------------------------ AuthController
\* login in which an email without account is answered 404 USER_NOT_FOUND.
LoginNamesUnknownEmail(c, e, p) ==
  LET attempts == GetCount(store, LoginKey(c)) IN
  IF attempts >= LoginAttemptsMax THEN
    /\ resp' = Response("login", e, 429, "LOGIN_RATE_LIMIT", NoToken, NoToken)
    /\ UNCHANGED <<store, users, issued>>
  ELSE IF e = 0 THEN
    /\ store' = RedisSet(store, LoginKey(c), attempts + 1, HourSeconds)
    /\ resp' = Response("login", e, 404, "USER_NOT_FOUND", NoToken, NoToken)
    /\ UNCHANGED <<users, issued>>
  ELSE IF IsLocked(users[e]) THEN
    /\ resp' = Response("login", e, 423, "ACCOUNT_LOCKED", NoToken, NoToken)
    /\ UNCHANGED <<store, users, issued>>
  ELSE IF ~users[e].active THEN
    /\ resp' = Response("login", e, 403, "ACCOUNT_INACTIVE", NoToken, NoToken)
    /\ UNCHANGED <<store, users, issued>>
  ELSE IF p # users[e].pw THEN
    /\ users' = [users EXCEPT ![e] = RecordLoginAttempt(@, FALSE, c)]
    /\ store' = RedisSet(RedisDel(store, UserKey(e)), LoginKey(c), attempts + 1, HourSeconds)
    /\ resp' = Response("login", e, 401, "INVALID_CREDENTIALS", NoToken, NoToken)
    /\ UNCHANGED issued
  ELSE
    LET token == GenerateJWT(e)
        s1 == RedisDel(RedisDel(store, UserKey(e)), LoginKey(c))
        s2 == RedisSet(s1, SessionKey(e), token, SessionTtl)
        s3 == RedisSet(s2, UserSessionKey(e), [ip |-> c], SessionTtl)
    IN /\ users' = [users EXCEPT ![e] = RecordLoginAttempt(@, TRUE, c)]
       /\ store' = s3
       /\ issued' = issued \cup {token}
       /\ resp' = Response("login", e, 200, "OK", NoToken, token)

\* AuthController.login for client c, account e (0: an email with no account) and
\* password p.
Login(c, e, p) ==
  LET attempts == GetCount(store, LoginKey(c)) IN
  IF attempts >= LoginAttemptsMax THEN
    /\ resp' = Response("login", e, 429, "LOGIN_RATE_LIMIT", NoToken, NoToken)
    /\ UNCHANGED <<store, users, issued>>
  ELSE IF e = 0 THEN
    /\ store' = RedisSet(store, LoginKey(c), attempts + 1, HourSeconds)
    /\ resp' = Response("login", e, 401, "INVALID_CREDENTIALS", NoToken, NoToken)
    /\ UNCHANGED <<users, issued>>
  ELSE IF IsLocked(users[e]) THEN
    /\ resp' = Response("login", e, 423, "ACCOUNT_LOCKED", NoToken, NoToken)
    /\ UNCHANGED <<store, users, issued>>
  ELSE IF ~users[e].active THEN
    /\ resp' = Response("login", e, 403, "ACCOUNT_INACTIVE", NoToken, NoToken)
    /\ UNCHANGED <<store, users, issued>>
  ELSE IF p # users[e].pw THEN
    /\ users' = [users EXCEPT ![e] = RecordLoginAttempt(@, FALSE, c)]
    /\ store' = RedisSet(RedisDel(store, UserKey(e)), LoginKey(c), attempts + 1, HourSeconds)
    /\ resp' = Response("login", e, 401, "INVALID_CREDENTIALS", NoToken, NoToken)
    /\ UNCHANGED issued
  ELSE
    LET token == GenerateJWT(e)
        s1 == RedisDel(RedisDel(store, UserKey(e)), LoginKey(c))
        s2 == RedisSet(s1, SessionKey(e), token, SessionTtl)
        s3 == RedisSet(s2, UserSessionKey(e), [ip |-> c], SessionTtl)
    IN /\ users' = [users EXCEPT ![e] = RecordLoginAttempt(@, TRUE, c)]
       /\ store' = s3
       /\ issued' = issued \cup {token}
       /\ resp' = Response("login", e, 200, "OK", NoToken, token)

\* POST /api/auth/login with the account's current password.
LoginOk(c, u) ==
  /\ Login(c, u, users[u].pw)
  /\ UNCHANGED nonSession /\ UNCHANGED <<now, horizon, isConnected, revokedOk, revokedUp, stalePw>>

\* Blacklist with an entry kept for the seven days of a session.
BlacklistForSession(s, t) == RedisSet(s, BlacklistKey(t), TRUE, SessionTtl)

\* Blacklist with an entry that lapses one second before the token does.
BlacklistLapsesEarly(s, t) ==
  LET expiresIn == Exp(t) - now - 1
  IN IF expiresIn > 0 THEN RedisSet(s, BlacklistKey(t), TRUE, expiresIn) ELSE s

\* The blacklist write of logout and refresh: expiresIn = decoded.exp - now,
\* written only when positive.
Blacklist(s, t) ==
  LET expiresIn == Exp(t) - now
  IN IF expiresIn > 0 THEN RedisSet(s, BlacklistKey(t), TRUE, expiresIn) ELSE s

\* AuthController.logout (and Mutation.logout) once the token was accepted.
LogoutBody(t) ==
  /\ store' = RedisDel(RedisDel(Blacklist(store, t), SessionKey(t.id)), UserSessionKey(t.id))
  /\ revokedOk' = revokedOk \cup {t}
  /\ revokedUp' = IF isConnected THEN revokedUp \cup {t} ELSE revokedUp
  /\ UNCHANGED nonSession /\ UNCHANGED <<now, horizon, isConnected, users, issued, stalePw>>

\* A request rejected by authenticateToken: 401 with the middleware's code.
Rejected(t) ==
  /\ resp' = Response("auth", t.id, 401, AuthenticateToken(t), t, NoToken)
  /\ UNCHANGED nonSession /\ UNCHANGED <<now, horizon, isConnected, store, users, issued, revokedOk, revokedUp, stalePw>>

\* A GraphQL operation whose context has no user: requireAuth throws.
GqlRejected(t) ==
  /\ resp' = Response("gql_auth", t.id, 401, "UNAUTHENTICATED", t, NoToken)
  /\ UNCHANGED nonSession /\ UNCHANGED <<now, horizon, isConnected, store, users, issued, revokedOk, revokedUp, stalePw>>

\* POST /api/auth/logout: authenticateToken, AuthController.logout.
Logout(t) ==
  IF AuthenticateToken(t) # "OK" THEN Rejected(t)
  ELSE /\ LogoutBody(t)
       /\ resp' = Response("logout", t.id, 200, "OK", t, NoToken)

\* GraphQL mutation logout: getContext, requireAuth, Mutation.logout.
GqlLogout(t) ==
  IF ~GetContextUser(t) THEN GqlRejected(t)
  ELSE /\ LogoutBody(t)
       /\ resp' = Response("gql_logout", t.id, 200, "OK", t, NoToken)

\* refreshToken in which a Redis write that fails throws: the handler's catch block
\* answers 500.
RefreshBodyWriteThrows(op, t) ==
  LET row == FindByIdRow(store, t.id)
      s0 == FindByIdStore(store, t.id)
      token == GenerateJWT(t.id)
  IN IF ~row.active THEN
       /\ store' = s0
       /\ resp' = Response(op, t.id, 401, "USER_INACTIVE", t, NoToken)
       /\ UNCHANGED nonSession /\ UNCHANGED <<now, horizon, isConnected, users, issued, revokedOk, revokedUp, stalePw>>
     ELSE IF ~isConnected THEN
       /\ resp' = Response(op, t.id, 500, "TOKEN_REFRESH_ERROR", t, NoToken)
       /\ UNCHANGED nonSession /\ UNCHANGED <<now, horizon, isConnected, store, users, issued, revokedOk, revokedUp, stalePw>>
     ELSE
       /\ store' = Blacklist(RedisSet(s0, SessionKey(t.id), token, SessionTtl), t)
       /\ issued' = issued \cup {token}
       /\ revokedOk' = revokedOk \cup {t}
       /\ revokedUp' = IF isConnected THEN revokedUp \cup {t} ELSE revokedUp
       /\ resp' = Response(op, t.id, 200, "OK", t, token)
       /\ UNCHANGED nonSession /\ UNCHANGED <<now, horizon, isConnected, users, stalePw>>

\* AuthController.refreshToken (and Mutation.refreshToken) once the token was accepted:
\* findById, new token, session write, blacklist of the presented token.
RefreshBody(op, t) ==
  LET row == FindByIdRow(store, t.id)
      s0 == FindByIdStore(store, t.id)
      token == GenerateJWT(t.id)
  IN IF ~row.active THEN
       /\ store' = s0
       /\ resp' = Response(op, t.id, 401, "USER_INACTIVE", t, NoToken)
       /\ UNCHANGED nonSession /\ UNCHANGED <<now, horizon, isConnected, users, issued, revokedOk, revokedUp, stalePw>>
     ELSE
       /\ store' = Blacklist(RedisSet(s0, SessionKey(t.id), token, SessionTtl), t)
       /\ issued' = issued \cup {token}
       /\ revokedOk' = revokedOk \cup {t}
       /\ revokedUp' = IF isConnected THEN revokedUp \cup {t} ELSE revokedUp
       /\ resp' = Response(op, t.id, 200, "OK", t, token)
       /\ UNCHANGED nonSession /\ UNCHANGED <<now, horizon, isConnected, users, stalePw>>

\* POST /api/auth/refresh-token.
Refresh(t) ==
  IF AuthenticateToken(t) # "OK" THEN Rejected(t)
  ELSE RefreshBody("refresh", t)

\* GraphQL mutation refreshToken.
GqlRefresh(t) ==
  IF ~GetContextUser(t) THEN GqlRejected(t)
  ELSE RefreshBody("gql_refresh", t)

\* The tokens of account u signed in an earlier second than now.
EarlierTokens(u) == {x \in issued : x.id = u /\ x.iat < now}

\* User.updatePassword: the UPDATE (new hash, reset token cleared) and the cache delete.
UpdatePasswordRow(row, newPassword) == [row EXCEPT !.pw = newPassword, !.resetExp = 0]

\* AuthController.changePassword (and Mutation.changePassword) once the token was
\* accepted, with currentPassword p and newPassword np.
ChangePasswordBody(op, t, p, np) ==
  LET row == FindByIdRow(store, t.id)
      s0 == FindByIdStore(store, t.id)
      token == GenerateJWT(t.id)
  IN IF p # row.pw THEN
       /\ store' = s0
       /\ resp' = Response(op, t.id, 401, "INVALID_CURRENT_PASSWORD", t, NoToken)
       /\ UNCHANGED nonSession /\ UNCHANGED <<now, horizon, isConnected, users, issued, revokedOk, revokedUp, stalePw>>
     ELSE
       LET s1 == RedisDel(s0, UserKey(t.id))
           s2 == DeletePatternExact(s1, SessionKey(t.id))
           s3 == DeletePatternExact(s2, UserSessionKey(t.id))
       IN /\ users' = [users EXCEPT ![t.id] = UpdatePasswordRow(@, np)]
          /\ store' = RedisSet(s3, SessionKey(t.id), token, SessionTtl)
          /\ issued' = issued \cup {token}
          /\ stalePw' = stalePw \cup EarlierTokens(t.id)
          /\ resp' = Response(op, t.id, 200, "OK", t, token)
          /\ UNCHANGED nonSession /\ UNCHANGED <<now, horizon, isConnected, revokedOk, revokedUp>>

\* PUT /api/auth/change-password.
ChangePassword(t, p, np) ==
  IF AuthenticateToken(t) # "OK" THEN Rejected(t)
  ELSE ChangePasswordBody("change_password", t, p, np)

\* GraphQL mutation changePassword.
GqlChangePassword(t, p, np) ==
  IF ~GetContextUser(t) THEN GqlRejected(t)
  ELSE ChangePasswordBody("gql_change_password", t, p, np)

\* GET /api/auth/profile: authenticateToken, then AuthController.getProfile
\* (User.findById fills user:{id}).
GetProfile(t) ==
  IF AuthenticateToken(t) # "OK" THEN Rejected(t)
  ELSE /\ store' = FindByIdStore(store, t.id)
       /\ resp' = Response("profile", t.id, 200, "OK", t, NoToken)
       /\ UNCHANGED nonSession /\ UNCHANGED <<now, horizon, isConnected, users, issued, revokedOk, revokedUp, stalePw>>

\* ------------------------------------------------------------- environment
\* The memory store of express-rate-limit holds no hits for a key whose window is over.
NoHits == [hits |-> 0, resetAt |-> 0]

\* The history sets speak of tokens before their expiry: expired tokens leave them.
Unexpired(S, t) == {x \in S : Exp(x) > t}

\* d seconds pass; Redis drops the keys whose TTL has elapsed.
Tick(d) ==
  /\ now + d <= horizon
  /\ now' = now + d
  /\ store' = Expire(store, now + d)
  /\ revokedOk' = Unexpired(revokedOk, now + d)
  /\ revokedUp' = Unexpired(revokedUp, now + d)
  /\ stalePw' = Unexpired(stalePw, now + d)
  /\ limiter' = IF limiter.resetAt <= now + d THEN NoHits ELSE limiter
  /\ UNCHANGED <<horizon, isConnected, users, issued, resp, hist, regs, regHist, db, reads, seen, ret, trx, general, peer, inFlight>>

\* The Redis client's "error"/"end" event.
Disconnect ==
  /\ isConnected
  /\ isConnected' = FALSE
  /\ UNCHANGED <<now, horizon, store, users, issued, revokedOk, revokedUp, stalePw, resp, limiter, hist,
               regs, regHist, db, reads, seen, ret, trx, general, peer, inFlight>>

\* The Redis client's "ready" event.
Reconnect ==
  /\ ~isConnected
  /\ isConnected' = TRUE
  /\ UNCHANGED <<now, horizon, store, users, issued, revokedOk, revokedUp, stalePw, resp, limiter, hist,
               regs, regHist, db, reads, seen, ret, trx, general, peer, inFlight>>

\* No login request of the scenario client yet.
NoHistory ==
  [n |-> 0, wrongPrefix |-> 0, prefix401 |-> 0, streak |-> 0, lastFailAt |-> 0,
   kind |-> "none", inWin |-> FALSE, inHour |-> FALSE]

\* A registration request the client has not sent yet.
IdleReg == [pc |-> "idle", count |-> 0, id |-> 0, status |-> 0, code |-> "NONE"]

\* What a cached route answers: the account whose rows the payload was computed
\* from and the version of those rows.
Payload(owner, ver) == [owner |-> owner, ver |-> ver]

\* No cached GET request of the account in flight.
NoRead == [pc |-> "idle", q |-> "none", payload |-> Payload(0, 0), fill |-> FALSE, floor |-> 0]

\* No cached GET request answered yet.
NoSeen == [who |-> 0, q |-> "none", payload |-> Payload(0, 0), floor |-> 0]

\* No RedisManager method called directly yet.
NoCall == [op |-> "none", down |-> FALSE, raised |-> FALSE, ok |-> FALSE, n |-> 0, src |-> "none"]

\* ---------------------------------------------------- session specification
\* last_login_at of an account that never logged in (NULL).
NoDate == -1

\* A row of the users table as User.create leaves it: no failed attempt, no lock,
\* no login recorded (last_login_at and last_login_ip are NULL).
NewUserRow ==
  [pw |-> 0, failed |-> 0, lockedUntil |-> 0, active |-> TRUE, resetExp |-> 0,
   lastLoginAt |-> NoDate, lastLoginIp |-> 0]

EmptyStore == [x \in {} |-> [val |-> TRUE, exp |-> 0]]

\* withTransaction is not running.
NoTransaction == [pc |-> "idle", maxRetries |-> 0, retries |-> 0, delay |-> 0,
                  commits |-> 0, rollbacks |-> 0, log |-> <<>>,
                  outcome |-> "none", error |-> <<>>]

\* No todo list has been read.
NoAnswers == [op \in {"todos", "overdue_todos", "upcoming_todos"} |->
                [filled |-> <<>>, cached |-> <<>>, hit |-> FALSE]]

\* No resetPassword request in flight.
NoReset == [pc |-> "idle", token |-> 0, pw |-> 0]
\* password_reset_token is NULL and no token was generated.
NoResetTokens ==
  [column |-> 0, minted |-> 0, accepted |-> [t \in 1..MaxTokens |-> 0]]

\* No login request in flight.
NoLogin == [pc |-> "idle", kind |-> "none", failed |-> 0, attempts |-> 0]

\* The accounts exist (User.create), Redis is connected and holds the keys of s, no
\* request yet; h is the last second explored.
InitWith(h, s) ==
  /\ now = 0
  /\ horizon = h
  /\ isConnected = TRUE
  /\ store = s
  /\ users = [u \in Users |-> NewUserRow]
  /\ issued = {}
  /\ revokedOk = {}
  /\ revokedUp = {}
  /\ stalePw = {}
  /\ resp = Response("none", 0, 0, "NONE", NoToken, NoToken)
  /\ limiter = NoHits
  /\ hist = NoHistory
  /\ regs = [r \in 1..MaxRegs |-> IdleReg]
  /\ regHist = [together |-> FALSE, clean |-> TRUE]
  /\ db = [u \in Users |-> 0]
  /\ reads = [u \in Users |-> NoRead]
  /\ seen = NoSeen
  /\ ret = NoCall
  /\ trx = [u \in Users |-> NoTrx]
  /\ general = NoHits
  /\ peer = NoHits
  /\ logins = [r \in 1..MaxConcurrent |-> NoLogin]
  /\ failures = 0
  /\ wt = NoTransaction
  /\ rows = <<>>
  /\ answers = NoAnswers
  /\ resets = [r \in 1..MaxResets |-> NoReset]
  /\ resetTokens = NoResetTokens

\* The start with an empty Redis.
InitAt(h) == InitWith(h, EmptyStore)

Init == InitAt(MaxTime)

\* A password change presents the account's password as currentPassword and asks
\* for the other password.
Next ==
  \/ \E c \in Clients, u \in SessionUsers : LoginOk(c, u)
  \/ \E t \in issued : Logout(t)
  \/ \E t \in issued : GqlLogout(t)
  \/ \E t \in issued : Refresh(t)
  \/ \E t \in issued : GqlRefresh(t)
  \/ \E t \in issued : ChangePassword(t, users[t.id].pw, OtherPassword(users[t.id].pw))
  \/ \E t \in issued : GqlChangePassword(t, users[t.id].pw, OtherPassword(users[t.id].pw))
  \/ \E t \in issued : GetProfile(t)
  \/ Tick(1)
  \/ Disconnect
  \/ Reconnect

Spec == Init /\ [][Next]_vars

\* The session lifecycle without password changes: login, logout, refresh and
\* validation over REST and GraphQL.
NextRevoke ==
  \/ \E c \in Clients, u \in SessionUsers : LoginOk(c, u)
  \/ \E t \in issued : Logout(t)
  \/ \E t \in issued : GqlLogout(t)
  \/ \E t \in issued : Refresh(t)
  \/ \E t \in issued : GqlRefresh(t)
  \/ \E t \in issued : GetProfile(t)
  \/ Tick(1)
  \/ Disconnect
  \/ Reconnect

SpecRevoke == Init /\ [][NextRevoke]_vars

\* ------------------------------------------------- session-lifecycle properties
\* C2: while Redis is connected, a token for which logout (or refresh) returned
\* success with the store connected is rejected with TOKEN_REVOKED by every
\* validation made before the token's own expiry; an unexpired token that was
\* never presented to logout or refresh is accepted.
C2_LogoutRevokes ==
  \A t \in issued :
    /\ (t \in revokedUp /\ isConnected /\ now < Exp(t)) => AuthenticateToken(t) = "TOKEN_REVOKED"
    /\ (t \notin revokedOk /\ now < Exp(t)) => AuthenticateToken(t) = "OK"

\* A revoked token was presented again, in a later second, with Redis connected and
\* before its expiry, and was answered TOKEN_REVOKED, while another token is alive.
C2_Witness ==
  /\ isConnected
  /\ resp.op = "auth" /\ resp.code = "TOKEN_REVOKED"
  /\ resp.presented \in revokedUp
  /\ resp.presented.iat < now /\ now < Exp(resp.presented)
  /\ \E t \in issued \ revokedOk : now < Exp(t)

\* C3: a token for which logout or refresh returned success is never accepted
\* again, neither by authenticateToken nor by the GraphQL context, whether or not
\* Redis is reachable.
C3_RevokedNeverAccepted ==
  \A t \in revokedOk : AuthenticateToken(t) # "OK" /\ ~GetContextUser(t)

\* C4: with Redis connected, after a successful password change every unexpired
\* token of the account that was issued before the change is rejected.
C4_PasswordChangeInvalidates ==
  \A t \in stalePw : (isConnected /\ now < Exp(t)) => AuthenticateToken(t) # "OK"

\* A refresh that returned 200.
RefreshAnswered(t) ==
  /\ Refresh(t) \/ GqlRefresh(t)
  /\ resp'.op \in {"refresh", "gql_refresh"}
  /\ resp'.status = 200

\* C9: with Redis connected, a successful refresh returns a token that differs from
\* the presented one, leaves blacklist:{old} in the store, and the returned token
\* is accepted by the next validation.
C9_RefreshRotates ==
  [][\A t \in issued :
       (isConnected /\ RefreshAnswered(t)) =>
         /\ resp'.returned # t
         /\ Live(store', BlacklistKey(t))
         /\ ~Live(store', BlacklistKey(resp'.returned))]_vars

\* C12: logout is called with a token right after a logout with the same token
\* returned success, before the token's expiry: the second call is rejected with
\* 401 TOKEN_REVOKED; it does not report success.
C12_SecondLogoutRevoked ==
  [][\A t \in issued :
       (/\ resp.op = "logout" /\ resp.status = 200 /\ resp.presented = t
        /\ now < Exp(t)
        /\ Logout(t)) =>
         (resp'.status = 401 /\ resp'.code = "TOKEN_REVOKED")]_vars

\* C17: a login answered 200 returns a token of its own (one that no earlier login,
\* refresh or password change returned), leaves session:{id} holding that token
\* when Redis is connected, and writes or removes no blacklist entry, so the
\* tokens issued before stay as they were for validation.
C17_LoginsIndependent ==
  [][\A c \in Clients, u \in SessionUsers :
       (resp'.op = "login" /\ resp'.status = 200 /\ LoginOk(c, u)) =>
         /\ resp'.returned \notin issued
         /\ isConnected => store'[SessionKey(u)].val = resp'.returned
         /\ \A t \in issued :
              Live(store', BlacklistKey(t)) <=> Live(store, BlacklistKey(t))]_vars

\* C24: the revocation entry of a token is in Redis only while the token has not
\* expired, and lapses at the token's exp (TTL = exp - now, counted from the second
\* of the write); and the entry written by a logout or refresh that reached Redis
\* is there for as long as the token has not expired.
C24_EntryLivesAsLongAsToken ==
  \A t \in issued :
    /\ BlacklistKey(t) \in DOMAIN store =>
         /\ now < Exp(t)
         /\ store[BlacklistKey(t)].exp = ExpiresAt(Exp(t) - now)
    /\ (t \in revokedUp /\ now < Exp(t)) => BlacklistKey(t) \in DOMAIN store

\* A token issued at second 0 was revoked and is in its last second: its entry,
\* due to lapse at the token's exp, is still in Redis.
C24_Witness ==
  \E t \in revokedUp :
    /\ t.iat = 0 /\ now = Exp(t) - 1 /\ now > 0
    /\ BlacklistKey(t) \in DOMAIN store
    /\ store[BlacklistKey(t)].exp = Exp(t)

\* ------------------------------------------------- validation specification
\* authenticateToken as a function of the bearer string, the blacklist entries the
\* store holds and the clock: requests to GET /api/auth/profile present no token, a
\* string that is no valid JWT, or a token signed for account 1 at second 0. The
\* store starts with any set of blacklist entries for these strings (an entry can
\* outlive the secret a token was signed with), each lapsing after one second or
\* not before the last second explored.
Bearers == {NoToken, Malformed(1)} \cup {[id |-> u, iat |-> 0] : u \in SessionUsers}

BlacklistStores(h) ==
  UNION {[K -> {[val |-> TRUE, exp |-> e] : e \in {1, h + 1}}] :
           K \in SUBSET {BlacklistKey(t) : t \in Bearers \ {NoToken}}}

InitValidate == \E s \in BlacklistStores(MaxTime) : InitWith(MaxTime, s)

NextValidate ==
  \/ \E t \in Bearers : GetProfile(t)
  \/ Tick(1)
  \/ Disconnect
  \/ Reconnect

SpecValidate == InitValidate /\ [][NextValidate]_vars

\* C13: authenticateToken decides in a fixed order: no bearer token is answered
\* TOKEN_REQUIRED; otherwise a blacklist entry the store reports is answered
\* TOKEN_REVOKED, whatever the signature and the expiry; otherwise a failed
\* signature or format check is answered TOKEN_INVALID and a failed expiry check
\* TOKEN_EXPIRED; only otherwise the request reaches its handler with the embedded
\* identity.
C13_ValidationOrder ==
  [][\A t \in Bearers :
       GetProfile(t) =>
         LET listed == isConnected /\ Live(store, BlacklistKey(t)) IN
         /\ t = NoToken => resp'.code = "TOKEN_REQUIRED"
         /\ (t # NoToken /\ listed) => resp'.code = "TOKEN_REVOKED"
         /\ (t # NoToken /\ ~listed /\ JwtInvalid(t)) => resp'.code = "TOKEN_INVALID"
         /\ (t # NoToken /\ ~listed /\ ~JwtInvalid(t) /\ JwtExpired(t)) =>
              resp'.code = "TOKEN_EXPIRED"
         /\ (t # NoToken /\ ~listed /\ ~JwtInvalid(t) /\ ~JwtExpired(t)) =>
              (resp'.op = "profile" /\ resp'.status = 200 /\ resp'.who = t.id)
         /\ resp'.status \in {200, 401}
         /\ resp'.status = 401 => resp'.op = "auth"]_vars

\* A string that is no valid JWT and has a blacklist entry was answered
\* TOKEN_REVOKED.
C13_Witness ==
  /\ resp.op = "auth" /\ resp.code = "TOKEN_REVOKED"
  /\ JwtInvalid(resp.presented)
  /\ isConnected /\ Live(store, BlacklistKey(resp.presented))

\* ------------------------------------------------------- login specification
\* One client sends login requests to POST /api/auth/login for account 1 (with the
\* wrong or the right password) or for an email without account. Requests are
\* processed one after another; the clock moves in quarters of an hour. The global
\* limiter rateLimits.general (100 per 15 minutes) is never reached by MaxLogins
\* requests per quarter.

\* express-rate-limit's memory store: one more hit for the key; the first hit of a
\* window sets the reset time.
Increment(l) ==
  IF l.hits = 0 THEN [hits |-> 1, resetAt |-> now + AuthWindow]
  ELSE [l EXCEPT !.hits = @ + 1]

\* The scenario history after a request of the given kind sent now and answered r:
\* the leading run of wrong-password requests (wrongPrefix) and how many of them
\* were answered 401, the number n of requests up to and including the one that
\* ended that run, the run of failed password attempts since the last success and
\* the time of its last failure, whether the request was sent within thirty minutes
\* of a fifth (or later) consecutive failure, and whether it was sent in the first
\* hour after the start, hence less than an hour after the client's first request.
Record(h, kind, r) ==
  LET failed == kind = "wrong" /\ r.status = 401
      leading == h.wrongPrefix = h.n /\ kind = "wrong"
      success == r.status = 200
  IN [n |-> IF h.wrongPrefix = h.n THEN h.n + 1 ELSE h.n,
      wrongPrefix |-> IF leading THEN h.n + 1 ELSE h.wrongPrefix,
      prefix401 |-> IF leading /\ failed THEN h.prefix401 + 1 ELSE h.prefix401,
      streak |-> IF failed THEN h.streak + 1 ELSE IF success THEN 0 ELSE h.streak,
      lastFailAt |-> IF failed THEN now ELSE IF success THEN 0 ELSE h.lastFailAt,
      kind |-> kind,
      inWin |-> h.streak >= LockThreshold /\ now < h.lastFailAt + LockSeconds,
      inHour |-> now < HourSeconds]

\* POST /api/auth/login: rateLimits.auth, then AuthController.login.
PostLogin(c, kind) ==
  LET e == IF kind = "unknown" THEN 0 ELSE 1
      p == IF kind = "right" THEN users[1].pw ELSE OtherPassword(users[1].pw)
      l == Increment(limiter)
  IN /\ limiter.hits < MaxLogins
     /\ limiter' = l
     /\ IF l.hits > AuthMax
          THEN /\ resp' = Response("login", e, 429, "RATE_LIMIT_EXCEEDED", NoToken, NoToken)
               /\ UNCHANGED <<store, users, issued>>
          ELSE Login(c, e, p)
     /\ hist' = Record(hist, kind, resp')
     /\ UNCHANGED nonLogin /\ UNCHANGED <<now, horizon, isConnected>>

InitLogin == InitAt(AuthWindow * LoginQuarters)

NextLogin ==
  \/ \E c \in Clients, kind \in {"wrong", "right", "unknown"} : PostLogin(c, kind)
  \/ Tick(AuthWindow)
  \/ Disconnect
  \/ Reconnect

SpecLogin == InitLogin /\ [][NextLogin]_vars

\* The account is in its lockout window: five or more consecutive failed password
\* attempts, the last of them less than thirty minutes ago.
InLockWindow == hist.streak >= LockThreshold /\ now < hist.lastFailAt + LockSeconds

C6_SixthIsLocked ==
  (/\ hist.n = LockThreshold + 1
   /\ hist.wrongPrefix = LockThreshold
   /\ hist.kind = "right"
   /\ hist.inWin) =>
     /\ hist.prefix401 = LockThreshold
     /\ resp.status = 423 /\ resp.code = "ACCOUNT_LOCKED"

\* C10: the client's first eleven requests carry a wrong password for account 1 and
\* are sent within one hour: the eleventh is answered 429 LOGIN_RATE_LIMIT.
C10_EleventhIsLoginRateLimit ==
  (/\ hist.n = LoginAttemptsMax + 1
   /\ hist.wrongPrefix = LoginAttemptsMax + 1
   /\ hist.inHour) =>
     (resp.status = 429 /\ resp.code = "LOGIN_RATE_LIMIT")

\* C11: every login answered 200 leaves the account with failed_login_attempts 0,
\* no lock expiry, and the login's time and address recorded; the counter is the
\* number of failed password attempts since the last success, so the account is
\* locked only after five failures with no success in between (four failures, a
\* success and four more failures do not lock it).
C11_SuccessResetsCounter ==
  /\ (resp.op = "login" /\ resp.status = 200) =>
       /\ users[1].failed = 0
       /\ users[1].lockedUntil = 0
       /\ users[1].lastLoginAt = resp.returned.iat
       /\ users[1].lastLoginIp \in Clients
  /\ users[1].failed = hist.streak
  /\ IsLocked(users[1]) => hist.streak >= LockThreshold

\* Four wrong passwords and the right one in the first quarter of an hour, four
\* more wrong passwords in the second, each answered 401: the counter is 4 and the
\* account is not locked.
C11_Witness ==
  /\ hist.wrongPrefix = LockThreshold - 1 /\ hist.prefix401 = LockThreshold - 1
  /\ hist.n = LockThreshold
  /\ issued = {[id |-> 1, iat |-> 0]}
  /\ now = AuthWindow /\ limiter.hits = LockThreshold - 1
  /\ hist.streak = LockThreshold - 1 /\ hist.kind = "wrong" /\ resp.status = 401
  /\ users[1].failed = LockThreshold - 1

\* ------------------------------------------------- credentials specification
\* The login scenario over two windows of rateLimits.auth, started with no failed
\* attempt of the client counted or with nine (attempts of the last hour for emails
\* without account, made in earlier windows of the limiter).
LoginCounts == {0, LoginAttemptsMax - 1}

\* Redis holding login_attempts:{ip} = n, not lapsing before h.
CountedStore(n, h) ==
  IF n = 0 THEN EmptyStore
  ELSE [k \in {LoginKey(c) : c \in Clients} |-> [val |-> n, exp |-> h + 1]]

InitCredentials == \E n \in LoginCounts : InitWith(AuthWindow, CountedStore(n, AuthWindow))

NextCredentials ==
  \/ \E c \in Clients, kind \in {"wrong", "right", "unknown"} : PostLogin(c, kind)
  \/ Tick(AuthWindow)
  \/ Disconnect
  \/ Reconnect

SpecCredentials == InitCredentials /\ [][NextCredentials]_vars

\* The status and code a login request can be answered with.
LoginAnswers ==
  {<<200, "OK">>, <<401, "INVALID_CREDENTIALS">>, <<403, "ACCOUNT_INACTIVE">>,
   <<404, "USER_NOT_FOUND">>, <<423, "ACCOUNT_LOCKED">>, <<429, "LOGIN_RATE_LIMIT">>,
   <<429, "RATE_LIMIT_EXCEEDED">>}

\* A login request of the given kind sent by client c in this state is answered a.
Answers(c, kind, a) ==
  ENABLED (PostLogin(c, kind) /\ resp'.status = a[1] /\ resp'.code = a[2])

\* Account 1 exists, is active and is not locked.
Loginable == users[1].active /\ ~IsLocked(users[1])

RegKey(c) == Key("registration", c, 0)

\* The requests that were sent and are not answered yet.
InFlight == {r \in DOMAIN regs : regs[r].pc \notin {"idle", "done"}}

\* The request was answered: its response is recorded, its locals are gone.
Answer(reg, status, code) ==
  [pc |-> "done", count |-> 0, id |-> 0, status |-> status, code |-> code]

\* The request arrives: rateLimits.auth counts it; the handler starts and awaits
\* redisManager.get(registrationKey).
RegSend(c, r) ==
  LET l == Increment(limiter) IN
  /\ regs[r].pc = "idle"
  /\ limiter' = l
  /\ IF l.hits > AuthMax
       THEN regs' = [regs EXCEPT ![r] = Answer(@, 429, "RATE_LIMIT_EXCEEDED")]
       ELSE regs' = [regs EXCEPT ![r].pc = "sent"]
  /\ regHist' = [together |-> regHist.together \/ (1..RegBatch) \subseteq InFlight',
                 clean |-> regHist.clean /\
                           (r \in 1..RegBatch \/ \A b \in 1..RegBatch : regs[b].pc = "done")]
  /\ UNCHANGED nonRegister /\ UNCHANGED <<now, horizon, isConnected, store, users, issued>>

\* The get resolves: registrationCount >= 3 is answered 429, otherwise the handler
\* awaits User.create.
RegGet(c, r) ==
  LET count == GetCount(store, RegKey(c)) IN
  /\ regs[r].pc = "sent"
  /\ IF count >= RegMax
       THEN regs' = [regs EXCEPT ![r] = Answer(@, 429, "REGISTRATION_RATE_LIMIT")]
       ELSE regs' = [regs EXCEPT ![r].pc = "got", ![r].count = count]
  /\ UNCHANGED nonRegister
  /\ UNCHANGED <<now, horizon, isConnected, store, users, issued, limiter, regHist>>

\* User.create inserts the row; the handler awaits the write of the counter. The id
\* only names the new row: the row of request r is given the r-th id after those
\* of the accounts that exist from the start.
RegCreate(r) ==
  LET id == Cardinality(Users) + r IN
  /\ regs[r].pc = "got"
  /\ users' = [x \in DOMAIN users \cup {id} |-> IF x = id THEN NewUserRow ELSE users[x]]
  /\ regs' = [regs EXCEPT ![r].pc = "created", ![r].id = id]
  /\ UNCHANGED nonRegister
  /\ UNCHANGED <<now, horizon, isConnected, store, issued, limiter, regHist>>

\* redisManager.set(registrationKey, registrationCount + 1, 3600) with the count
\* this request read.
RegCount(c, r) ==
  /\ regs[r].pc = "created"
  /\ store' = RedisSet(store, RegKey(c), regs[r].count + 1, HourSeconds)
  /\ regs' = [regs EXCEPT ![r].pc = "counted"]
  /\ UNCHANGED nonRegister
  /\ UNCHANGED <<now, horizon, isConnected, users, issued, limiter, regHist>>

\* generateJWT, the session write and the 201 response.
RegSession(r) ==
  LET token == GenerateJWT(regs[r].id) IN
  /\ regs[r].pc = "counted"
  /\ store' = RedisSet(store, SessionKey(regs[r].id), token, SessionTtl)
  /\ issued' = issued \cup {token}
  /\ regs' = [regs EXCEPT ![r] = Answer(@, 201, "OK")]
  /\ UNCHANGED nonRegister
  /\ UNCHANGED <<now, horizon, isConnected, users, limiter, regHist>>

InitRegister == InitAt(HourSeconds * RegHours)

NextRegister ==
  \/ \E c \in Clients, r \in 1..MaxRegs : RegSend(c, r)
  \/ \E c \in Clients, r \in 1..MaxRegs : RegGet(c, r)
  \/ \E r \in 1..MaxRegs : RegCreate(r)
  \/ \E c \in Clients, r \in 1..MaxRegs : RegCount(c, r)
  \/ \E r \in 1..MaxRegs : RegSession(r)
  \/ Tick(HourSeconds)
  \/ Disconnect
  \/ Reconnect

SpecRegister == InitRegister /\ [][NextRegister]_vars

\* The requests of the batch answered with the given status and code.
Answered(status, code) ==
  {r \in 1..RegBatch : regs[r].pc = "done" /\ regs[r].status = status /\ regs[r].code = code}

\* C8: four registration requests of one client were in flight together, with no
\* other request of the client before they were answered, and Redis is connected:
\* once all four are answered, exactly 3 were allowed (201) and 1 was rejected with
\* 429 REGISTRATION_RATE_LIMIT.
C8_ExactlyThreeAllowed ==
  (/\ regHist.together /\ regHist.clean
   /\ isConnected
   /\ \A r \in 1..RegBatch : regs[r].pc = "done") =>
     /\ Cardinality(Answered(201, "OK")) = RegMax
     /\ Cardinality(Answered(429, "REGISTRATION_RATE_LIMIT")) = 1

\* ------------------------------------------------------- cache specification
\* Two accounts with valid tokens use the cached todo routes GET /api/todos and
\* GET /api/todos/categories (the routes stats, tags, overdue and upcoming have the
\* same shape) and mutate their todos. A GET request is suspended between its
\* lookups and its cache writes. rateLimits.api (60 per minute) is not reached.
Routes == {"todos", "categories"}

\* cacheMiddleware: cacheKey = `cache:${req.originalUrl}`.
RouteKey(q) == Key(IF q = "todos" THEN "cache:/api/todos" ELSE "cache:/api/todos/categories", 0, 0)

\* Todo.findByUser / Todo.getUserCategories: todos:{userId}:{options}, user_categories:{userId}.
ModelKey(q, u) == Key(IF q = "todos" THEN "todos" ELSE "user_categories", u, 0)

\* The TTL of a route's cacheMiddleware and of its model-level entry.
RouteTtl(q) == IF q = "todos" THEN ListTtl ELSE CategoriesTtl

\* Todo.invalidateUserCache: deletePattern for the model-level keys of the account.
InvalidateUserCache(s, u) ==
  DeletePatternExact(DeletePatternExact(s, ModelKey("todos", u)), ModelKey("categories", u))

\* GET of route q by account u: cacheMiddleware answers from cache:{url} when it
\* holds a value; otherwise the controller asks the model, which reads its own cache
\* entry or the todos table.
ReadStart(u, q) ==
  /\ reads[u].pc = "idle"
  /\ IF Hit(store, RouteKey(q))
       THEN /\ seen' = [who |-> u, q |-> q, payload |-> store[RouteKey(q)].val, floor |-> db[u]]
            /\ UNCHANGED reads
       ELSE LET hit == Hit(store, ModelKey(q, u))
                payload == IF hit THEN store[ModelKey(q, u)].val ELSE Payload(u, db[u])
            IN /\ reads' = [reads EXCEPT ![u] = [pc |-> "got", q |-> q, payload |-> payload,
                                                 fill |-> ~hit, floor |-> db[u]]]
               /\ UNCHANGED seen
  /\ UNCHANGED nonCache /\ UNCHANGED <<now, horizon, isConnected, store, db>>

\* The model writes its cache entry after a miss, the controller answers with
\* res.json, which cacheMiddleware has wrapped to write cache:{url}.
ReadFinish(u) ==
  LET r == reads[u]
      s1 == IF r.fill THEN RedisSet(store, ModelKey(r.q, u), r.payload, RouteTtl(r.q)) ELSE store
  IN /\ r.pc = "got"
     /\ store' = RedisSet(s1, RouteKey(r.q), r.payload, RouteTtl(r.q))
     /\ seen' = [who |-> u, q |-> r.q, payload |-> r.payload, floor |-> r.floor]
     /\ reads' = [reads EXCEPT ![u] = NoRead]
     /\ UNCHANGED nonCache /\ UNCHANGED <<now, horizon, isConnected, db>>

\* A mutating todo request of account u (Todo.create, update, delete): the write to
\* the todos table, then Todo.invalidateUserCache, then the response.
Write(u) ==
  /\ db[u] < MaxWrites
  /\ db' = [db EXCEPT ![u] = @ + 1]
  /\ store' = InvalidateUserCache(store, u)
  /\ UNCHANGED nonCache /\ UNCHANGED <<now, horizon, isConnected, reads, seen>>

InitCache == InitAt(ListTtl * CachePeriods)

NextCache ==
  \/ \E u \in Users, q \in Routes : ReadStart(u, q)
  \/ \E u \in Users : ReadFinish(u)
  \/ \E u \in Users : Write(u)
  \/ Tick(ListTtl)
  \/ Disconnect
  \/ Reconnect

SpecCache == InitCache /\ [][NextCache]_vars

\* C1: a cached GET request of an account is answered with a payload computed from
\* that account's rows, never from an entry filled by a request of another account.
C1_CacheKeyedByAccount ==
  seen.who # 0 => seen.payload.owner = seen.who

\* C7: a cached GET request of an account that is answered with the account's own
\* data reflects every mutation of the account that had returned when the
\* request was sent.
C7_NoStaleRead ==
  (seen.who # 0 /\ seen.payload.owner = seen.who) => seen.payload.ver >= seen.floor

\* ------------------------------------------------- RedisManager specification
\* The methods of RedisManager called one at a time on the keys user:1 and
\* login_attempts:1, and User.findById(1). Every method body runs inside
\* try { ... } catch (error) { return <fallback> }. A command sent to a connected
\* client may fail (the client rejects: timeout, connection lost); a failed command
\* leaves the keyspace as it was.
RedisKeys == {UserKey(1), LoginKey(1)}

\* What a method body comes to: it returns (ok: a value was found, or the write was
\* done; n: the number returned by increment and deletePattern) or it throws.
Outcome(ok, n) == [raised |-> FALSE, ok |-> ok, n |-> n]
Thrown == [raised |-> TRUE, ok |-> FALSE, n |-> 0]

\* A method without its catch block: the error reaches the caller.
Rethrow(o) == o

\* catch (error) { return null / false / 0 }.
Catch(o) == IF o.raised THEN Outcome(FALSE, 0) ELSE o

\* The body of a method: `if (!this.isConnected) return <fallback>`, then the
\* command, which throws when it fails.
Body(fails, o) ==
  IF ~isConnected THEN Outcome(FALSE, 0)
  ELSE IF fails THEN Thrown
  ELSE o

\* What the caller of method op is handed.
Called(op, fails, o) ==
  LET c == Catch(Body(fails, o))
  IN [op |-> op, down |-> ~isConnected \/ fails, raised |-> c.raised, ok |-> c.ok, n |-> c.n,
      src |-> "none"]

\* The command reached Redis and was carried out.
Done(fails) == isConnected /\ ~fails

\* RedisManager.get(k).
CallGet(k, fails) ==
  /\ ret' = Called("get", fails, Outcome(Live(store, k), 0))
  /\ UNCHANGED <<now, horizon, isConnected, store, users, issued, revokedOk, revokedUp, stalePw,
                 resp, limiter, hist, regs, regHist, db, reads, seen, trx, general, peer, inFlight>>

\* RedisManager.set(k, 1, ttl).
CallSet(k, ttl, fails) ==
  /\ ret' = Called("set", fails, Outcome(TRUE, 0))
  /\ store' = IF Done(fails) THEN RedisSet(store, k, 1, ttl) ELSE store
  /\ UNCHANGED <<now, horizon, isConnected, users, issued, revokedOk, revokedUp, stalePw,
                 resp, limiter, hist, regs, regHist, db, reads, seen, trx, general, peer, inFlight>>

\* RedisManager.del(k): result > 0.
CallDel(k, fails) ==
  /\ ret' = Called("del", fails, Outcome(Live(store, k), 0))
  /\ store' = IF Done(fails) THEN RedisDel(store, k) ELSE store
  /\ UNCHANGED <<now, horizon, isConnected, users, issued, revokedOk, revokedUp, stalePw,
                 resp, limiter, hist, regs, regHist, db, reads, seen, trx, general, peer, inFlight>>

\* RedisManager.exists(k): result === 1.
CallExists(k, fails) ==
  /\ ret' = Called("exists", fails, Outcome(Live(store, k), 0))
  /\ UNCHANGED <<now, horizon, isConnected, store, users, issued, revokedOk, revokedUp, stalePw,
                 resp, limiter, hist, regs, regHist, db, reads, seen, trx, general, peer, inFlight>>

\* RedisManager.increment(login_attempts:c): INCRBY creates the key without TTL and
\* keeps the TTL of an existing key.
CallIncrement(c, fails) ==
  LET k == LoginKey(c)
      v == IF Live(store, k) THEN store[k].val + 1 ELSE 1
      e == IF Live(store, k) THEN store[k].exp ELSE horizon + 1
  IN /\ v <= MaxCount
     /\ ret' = Called("increment", fails, Outcome(TRUE, v))
     /\ store' = IF Done(fails)
                   THEN [x \in DOMAIN store \cup {k} |->
                           IF x = k THEN [val |-> v, exp |-> e] ELSE store[x]]
                   ELSE store
     /\ UNCHANGED <<now, horizon, isConnected, users, issued, revokedOk, revokedUp, stalePw,
                    resp, limiter, hist, regs, regHist, db, reads, seen, trx, general, peer, inFlight>>

\* RedisManager.expire(k, ttl): result === 1 when the key exists.
CallExpire(k, ttl, fails) ==
  /\ ret' = Called("expire", fails, Outcome(Live(store, k), 0))
  /\ store' = IF Done(fails) /\ Live(store, k)
                THEN [store EXCEPT ![k].exp = ExpiresAt(ttl)]
                ELSE store
  /\ UNCHANGED <<now, horizon, isConnected, users, issued, revokedOk, revokedUp, stalePw,
                 resp, limiter, hist, regs, regHist, db, reads, seen, trx, general, peer, inFlight>>

\* RedisManager.deletePattern(k) for a pattern without wildcard: the number of keys
\* deleted.
CallDeletePattern(k, fails) ==
  /\ ret' = Called("deletePattern", fails,
                   Outcome(Live(store, k), IF Live(store, k) THEN 1 ELSE 0))
  /\ store' = IF Done(fails) THEN DeletePatternExact(store, k) ELSE store
  /\ UNCHANGED <<now, horizon, isConnected, users, issued, revokedOk, revokedUp, stalePw,
                 resp, limiter, hist, regs, regHist, db, reads, seen, trx, general, peer, inFlight>>

\* User.findById(u): get user:{u}; on a miss the row is read from the users table
\* and written to the cache; the get and the set are two commands.
CallFindById(u, failsGet, failsSet) ==
  LET got == Catch(Body(failsGet, Outcome(Live(store, UserKey(u)), 0)))
      put == Catch(Body(failsSet, Outcome(TRUE, 0)))
  IN /\ ret' = [op |-> "findById", down |-> ~isConnected \/ failsGet,
                 raised |-> got.raised \/ (~got.ok /\ put.raised),
                 ok |-> u \in DOMAIN users, n |-> 0,
                 src |-> IF got.ok THEN "cache" ELSE "db"]
     /\ store' = IF ~got.ok /\ put.ok
                   THEN RedisSet(store, UserKey(u), users[u], UserCacheTtl)
                   ELSE store
     /\ UNCHANGED <<now, horizon, isConnected, users, issued, revokedOk, revokedUp, stalePw,
                    resp, limiter, hist, regs, regHist, db, reads, seen, trx, general, peer, inFlight>>

InitRedis == InitAt(MaxTime)

NextRedis ==
  \/ \E k \in RedisKeys, fails \in BOOLEAN : CallGet(k, fails)
  \/ \E k \in RedisKeys, ttl \in {1, HourSeconds}, fails \in BOOLEAN : CallSet(k, ttl, fails)
  \/ \E k \in RedisKeys, fails \in BOOLEAN : CallDel(k, fails)
  \/ \E k \in RedisKeys, fails \in BOOLEAN : CallExists(k, fails)
  \/ \E c \in Clients, fails \in BOOLEAN : CallIncrement(c, fails)
  \/ \E k \in RedisKeys, fails \in BOOLEAN : CallExpire(k, 1, fails)
  \/ \E k \in RedisKeys, fails \in BOOLEAN : CallDeletePattern(k, fails)
  \/ \E u \in SessionUsers, failsGet \in BOOLEAN, failsSet \in BOOLEAN :
       CallFindById(u, failsGet, failsSet)
  \/ Tick(1)
  \/ Disconnect
  \/ Reconnect

SpecRedis == InitRedis /\ [][NextRedis]_vars

\* The methods of RedisManager.
CacheOps == {"get", "set", "del", "exists", "increment", "expire", "deletePattern"}

\* C14: no RedisManager method raises to its caller; a method called while Redis is
\* not connected, or whose command fails, reports a miss or a failure (get null,
\* exists false, set/del/expire false, increment null, deletePattern 0); findById
\* then still returns the user, read from the users table.
C14_CacheOpsNeverRaise ==
  /\ ~ret.raised
  /\ (ret.op \in CacheOps /\ ret.down) => (~ret.ok /\ ret.n = 0)
  /\ ret.op = "findById" => (ret.ok /\ (ret.down => ret.src = "db"))

\* findById returned the row of the users table while user:1 was cached and Redis
\* was not connected.
C14_Witness ==
  /\ ret.op = "findById" /\ ret.down /\ ret.ok /\ ret.src = "db"
  /\ ~isConnected
  /\ Live(store, UserKey(1))

\* ------------------------------------------------- rate-check specification
\* The four rate checks that count in Redis: login_attempts:{ip} (login),
\* registration:{ip} (register), password_reset:{ip} (forgot-password) and
\* graphql:{ip} (the Apollo plugin). One client sends login, forgot-password and
\* GraphQL requests and one registration, all within one second; Redis starts with
\* any of the four counters at its limit. The three REST routes share the key
\* `${ip}:auth` of rateLimits.auth, whose counts are kept in memory.
ResetKey(c) == Key("password_reset", c, 0)
GraphqlKey(c) == Key("graphql", c, 0)

\* The limit of each counter.
RateLimitOf(k) ==
  CASE k.p = "login_attempts" -> LoginAttemptsMax
    [] k.p = "registration" -> RegMax
    [] k.p = "password_reset" -> ResetMax
    [] k.p = "graphql" -> GraphqlMax

RateKeys == UNION {{LoginKey(c), RegKey(c), ResetKey(c), GraphqlKey(c)} : c \in Clients}

\* Some of the counters stand at their limit and do not lapse before h.
RateStores(h) ==
  {[k \in K |-> [val |-> RateLimitOf(k), exp |-> h + 1]] : K \in SUBSET RateKeys}

\* User.generatePasswordResetToken: the UPDATE; the caller also deletes user:{id}.
GeneratePasswordResetToken(row) == [row EXCEPT !.resetExp = now + ResetTokenSeconds]

\* AuthController.requestPasswordReset for client c and the email of account e
\* (0: an email with no account).
RequestPasswordReset(c, e) ==
  LET resetCount == GetCount(store, ResetKey(c))
      found == e # 0 /\ users[e].active
  IN IF resetCount >= ResetMax THEN
       /\ resp' = Response("forgot_password", e, 429, "RESET_RATE_LIMIT", NoToken, NoToken)
       /\ UNCHANGED <<store, users>>
     ELSE
       /\ users' = IF found THEN [users EXCEPT ![e] = GeneratePasswordResetToken(@)] ELSE users
       /\ store' = RedisSet(IF found THEN RedisDel(store, UserKey(e)) ELSE store,
                            ResetKey(c), resetCount + 1, HourSeconds)
       /\ resp' = Response("forgot_password", e, 200, "OK", NoToken, NoToken)

\* POST /api/auth/forgot-password: rateLimits.auth, then requestPasswordReset.
PostForgotPassword(c, e) ==
  LET l == Increment(limiter)
  IN /\ limiter.hits < MaxLogins
     /\ limiter' = l
     /\ IF l.hits > AuthMax
          THEN /\ resp' = Response("forgot_password", e, 429, "RATE_LIMIT_EXCEEDED", NoToken, NoToken)
               /\ UNCHANGED <<store, users>>
          ELSE RequestPasswordReset(c, e)
     /\ UNCHANGED <<now, horizon, isConnected, issued, revokedOk, revokedUp, stalePw, hist,
                    regs, regHist, db, reads, seen, ret, trx, general, peer, inFlight>>

\* A GraphQL operation of client c: the plugin's didResolveOperation reads
\* graphql:{ip}, throws Error("GraphQL rate limit exceeded") at 30 (an error
\* response, the operation is not executed) and otherwise writes the count + 1 with
\* a TTL of one minute; the operation is then executed. The specification follows
\* the counter up to MaxCount and at its limit.
GqlOperation(c) ==
  LET requestCount == GetCount(store, GraphqlKey(c))
  IN /\ requestCount < MaxCount \/ requestCount >= GraphqlMax
     /\ IF requestCount >= GraphqlMax THEN
          /\ resp' = Response("graphql", 0, 500, "GRAPHQL_RATE_LIMIT", NoToken, NoToken)
          /\ UNCHANGED store
        ELSE
          /\ store' = RedisSet(store, GraphqlKey(c), requestCount + 1, GraphqlWindow)
          /\ resp' = Response("graphql", 0, 200, "OK", NoToken, NoToken)
     /\ UNCHANGED <<now, horizon, isConnected, users, issued, revokedOk, revokedUp, stalePw,
                    limiter, hist, regs, regHist, db, reads, seen, ret, trx, general, peer, inFlight>>

InitRate == \E s \in RateStores(0) : InitWith(0, s)

NextRate ==
  \/ \E c \in Clients, kind \in {"wrong", "right", "unknown"} :
       limiter.hits < MaxRateRequests /\ PostLogin(c, kind)
  \/ \E c \in Clients, e \in {0} \cup SessionUsers :
       limiter.hits < MaxRateRequests /\ PostForgotPassword(c, e)
  \/ \E c \in Clients : GqlOperation(c)
  \/ \E c \in Clients : limiter.hits < MaxRateRequests /\ RegSend(c, 1)
  \/ \E c \in Clients : RegGet(c, 1)
  \/ RegCreate(1)
  \/ \E c \in Clients : RegCount(c, 1)
  \/ RegSession(1)
  \/ Disconnect
  \/ Reconnect

SpecRate == InitRate /\ [][NextRate]_vars

\* The codes of the rejections decided on a counter kept in Redis.
StoreRateCodes ==
  {"LOGIN_RATE_LIMIT", "REGISTRATION_RATE_LIMIT", "RESET_RATE_LIMIT", "GRAPHQL_RATE_LIMIT"}

\* C15: while Redis is not connected no request is rejected by a rate check that
\* counts in Redis: the login, forgot-password and GraphQL requests are not
\* answered with the check's code and the registration goes on to User.create.
C15_RateChecksFailOpen ==
  [][~isConnected =>
       /\ \A c \in Clients, kind \in {"wrong", "right", "unknown"} :
            PostLogin(c, kind) => resp'.code \notin StoreRateCodes
       /\ \A c \in Clients, e \in {0} \cup SessionUsers :
            PostForgotPassword(c, e) => resp'.code \notin StoreRateCodes
       /\ \A c \in Clients : GqlOperation(c) => (resp'.status = 200 /\ resp'.code = "OK")
       /\ \A c \in Clients : RegGet(c, 1) => regs'[1].pc = "got"]_vars

\* Redis is not connected and holds login_attempts:1 at its limit; the last request
\* was a login that reached the password check and was answered 401.
C15_Witness ==
  /\ ~isConnected
  /\ Live(store, LoginKey(1)) /\ store[LoginKey(1)].val >= LoginAttemptsMax
  /\ resp.op = "login" /\ resp.status = 401 /\ resp.code = "INVALID_CREDENTIALS"

\* ------------------------------------------------- mutation specification
\* The REST requests of one account that write to or delete from Redis as part of
\* their work: login, logout, refresh, password change and the todo mutations.
InitMutate == InitAt(MutateSeconds)

NextMutate ==
  \/ \E c \in Clients, u \in SessionUsers : LoginOk(c, u)
  \/ \E t \in issued : Logout(t)
  \/ \E t \in issued : Refresh(t)
  \/ \E t \in issued : ChangePassword(t, users[t.id].pw, OtherPassword(users[t.id].pw))
  \/ \E u \in SessionUsers : Write(u)
  \/ Tick(1)
  \/ Disconnect
  \/ Reconnect

SpecMutate == InitMutate /\ [][NextMutate]_vars

IdOf(u) == [i \in 1..IdLen |-> IF i = IdLen /\ u # 1 THEN "b" ELSE "a"]

\* The key families: Todo.findByUser, getUserCategories, getUserTags,
\* getOverdueTodos, getUpcomingTodos, the statistics and User.findById.
Families ==
  {"todos", "user_categories", "user_tags", "overdue_todos", "upcoming_todos", "user_stats", "user"}

\* `todos:${userId}:${JSON.stringify(options)}`, `upcoming_todos:${userId}:${days}`
\* (one options text and one number of days), `user_categories:${userId}`, ...
CacheKeyOf(f, u) ==
  <<f, ":">> \o IdOf(u) \o
    (IF f = "todos" THEN <<":", "{}">> ELSE IF f = "upcoming_todos" THEN <<":", "7">> ELSE <<>>)

\* cacheMiddleware's key of GET /api/todos.
RouteCacheKey == <<"cache", ":", "/api/todos">>

\* The TTL each family is cached with.
FamilyTtl(f) ==
  CASE f = "todos" -> ListTtl
    [] f \in {"user_categories", "user_tags"} -> CategoriesTtl
    [] f \in {"overdue_todos", "user_stats"} -> 300
    [] f \in {"upcoming_todos", "user"} -> UserCacheTtl

\* Redis glob matching for the patterns in use: "*" matches any run of symbols,
\* every other symbol matches itself.
RECURSIVE Glob(_, _)
Glob(pattern, key) ==
  IF pattern = <<>> THEN key = <<>>
  ELSE IF Head(pattern) = "*"
    THEN Glob(Tail(pattern), key) \/ (key # <<>> /\ Glob(pattern, Tail(key)))
  ELSE key # <<>> /\ Head(key) = Head(pattern) /\ Glob(Tail(pattern), Tail(key))

\* Patterns that leave the account id out.
InvalidatePatternsAnyUser(u) ==
  {<<"todos", ":", "*">>, <<"user_categories", ":", "*">>, <<"user_tags", ":", "*">>,
   <<"overdue_todos", ":", "*">>, <<"upcoming_todos", ":", "*">>, <<"user_stats", ":", "*">>}

\* The patterns of Todo.invalidateUserCache(userId).
InvalidatePatterns(u) ==
  {<<"todos", ":">> \o IdOf(u) \o <<":", "*">>,
   <<"user_categories", ":">> \o IdOf(u),
   <<"user_tags", ":">> \o IdOf(u),
   <<"overdue_todos", ":">> \o IdOf(u),
   <<"upcoming_todos", ":">> \o IdOf(u) \o <<":", "*">>,
   <<"user_stats", ":">> \o IdOf(u)}

\* The keys the deletePattern calls of the set of patterns find (client.keys).
Matching(s, patterns) == {k \in DOMAIN s : Live(s, k) /\ \E q \in patterns : Glob(q, k)}

\* RedisManager.deletePattern for each of the patterns: the keyspace afterwards.
DeletePatterns(s, patterns) ==
  IF isConnected THEN [x \in DOMAIN s \ Matching(s, patterns) |-> s[x]] ELSE s

\* What this specification leaves alone.
nonInvalidate ==
  <<now, horizon, isConnected, users, issued, revokedOk, revokedUp, stalePw, resp, limiter,
    hist, regs, regHist, reads, seen, trx, general, peer, inFlight>>

\* A read of account u that misses fills the key of family f.
CacheFill(u, f) ==
  /\ Cardinality(DOMAIN store) < MaxEntries
  /\ ~Live(store, CacheKeyOf(f, u))
  /\ isConnected
  /\ store' = RedisSet(store, CacheKeyOf(f, u), Payload(u, db[u]), FamilyTtl(f))
  /\ UNCHANGED nonInvalidate /\ UNCHANGED <<db, ret>>

\* GET /api/todos of account u fills cache:/api/todos.
RouteFill(u) ==
  /\ Cardinality(DOMAIN store) < MaxEntries
  /\ ~Live(store, RouteCacheKey)
  /\ isConnected
  /\ store' = RedisSet(store, RouteCacheKey, Payload(u, db[u]), ListTtl)
  /\ UNCHANGED nonInvalidate /\ UNCHANGED <<db, ret>>

\* A todo mutation of account u: the write to the todos table, then
\* Todo.invalidateUserCache(u); the number of keys its deletePattern calls deleted
\* is recorded.
TodoMutation(u) ==
  LET hit == Matching(store, InvalidatePatterns(u)) IN
  /\ db[u] < MaxWrites
  /\ db' = [db EXCEPT ![u] = @ + 1]
  /\ store' = DeletePatterns(store, InvalidatePatterns(u))
  /\ ret' = Called("deletePattern", FALSE, Outcome(hit # {}, Cardinality(hit)))
  /\ UNCHANGED nonInvalidate

\* A profile mutation of account u (User.update and the like): the UPDATE, then
\* redisManager.del(`user:${id}`).
ProfileMutation(u) ==
  /\ store' = RedisDel(store, CacheKeyOf("user", u))
  /\ ret' = Called("del", FALSE, Outcome(Live(store, CacheKeyOf("user", u)), 0))
  /\ UNCHANGED nonInvalidate /\ UNCHANGED db

InitInvalidate == InitAt(0)

NextInvalidate ==
  \/ \E u \in Users, f \in Families : CacheFill(u, f)
  \/ \E u \in Users : RouteFill(u)
  \/ \E u \in Users : TodoMutation(u)
  \/ \E u \in Users : ProfileMutation(u)
  \/ Disconnect
  \/ Reconnect

SpecInvalidate == InitInvalidate /\ [][NextInvalidate]_vars

\* C18: the invalidation that follows a mutation of an account deletes keys of that
\* account only: every cache entry filled from another account's data (listings,
\* categories, tags, overdue, upcoming, statistics, profile, the route cache) is in
\* Redis afterwards as it was before.
C18_OthersUntouched ==
  [][\A u \in Users :
       (store' # store /\ (TodoMutation(u) \/ ProfileMutation(u))) =>
         \A k \in DOMAIN store :
           store[k].val.owner # u => (k \in DOMAIN store' /\ store'[k] = store[k])]_vars

\* The last mutation, of account 1, deleted a key; nothing of account 1 is cached,
\* and the listing of account 2, whose key differs from account 1's in the last
\* character of the id only, is.
C18_Witness ==
  /\ ret.op = "deletePattern" /\ ret.n >= 1
  /\ db[1] > 0 /\ db[2] = 0
  /\ \A k \in DOMAIN store : store[k].val.owner = 2
  /\ Live(store, CacheKeyOf("todos", 2))

\* ------------------------------------------------- transaction specification
\* The todo mutations next to cached GET /api/todos requests. create, update and delete write
\* one statement on the pool connection (Write); bulkUpdate, bulkDelete and
\* reorderTodos run their statements in withTransaction(callback): db.transaction(),
\* the callback, trx.commit(), and trx.rollback() when either throws. What a
\* transaction wrote is visible to other connections once it is committed.
BulkOps == {"bulkUpdate", "bulkDelete", "reorderTodos"}

\* What the bulk mutations leave alone.
nonTransaction ==
  <<now, horizon, isConnected, users, issued, revokedOk, revokedUp, stalePw, resp, limiter,
    hist, regs, regHist, reads, seen, ret, general, peer, inFlight>>

\* db.transaction(), then the callback up to its UPDATE or DELETE statements on trx:
\* the committed rows are as before.
BulkWrite(u, op) ==
  /\ trx[u].pc = "idle"
  /\ db[u] < MaxWrites
  /\ trx' = [trx EXCEPT ![u] = [pc |-> "written", op |-> op]]
  /\ UNCHANGED nonTransaction /\ UNCHANGED <<store, db>>

\* The callback's `await this.invalidateUserCache(userId)`.
BulkInvalidate(u) ==
  /\ trx[u].pc = "written"
  /\ store' = InvalidateUserCache(store, u)
  /\ trx' = [trx EXCEPT ![u].pc = "invalidated"]
  /\ UNCHANGED nonTransaction /\ UNCHANGED db

\* The callback returns, trx.commit() succeeds, the result goes to the controller,
\* which responds.
BulkCommit(u) ==
  /\ trx[u].pc = "invalidated"
  /\ db[u] < MaxWrites
  /\ db' = [db EXCEPT ![u] = @ + 1]
  /\ trx' = [trx EXCEPT ![u] = NoTrx]
  /\ UNCHANGED nonTransaction /\ UNCHANGED store

\* A statement or trx.commit() throws: trx.rollback(), the error is rethrown.
BulkRollback(u) ==
  /\ trx[u].pc \in {"written", "invalidated"}
  /\ trx' = [trx EXCEPT ![u] = NoTrx]
  /\ UNCHANGED nonTransaction /\ UNCHANGED <<store, db>>

InitTransaction == InitAt(0)

NextTransaction ==
  \/ \E u \in Users : ReadStart(u, "todos")
  \/ \E u \in Users : ReadFinish(u)
  \/ \E u \in Users : Write(u)
  \/ \E u \in Users, op \in BulkOps : BulkWrite(u, op)
  \/ \E u \in Users : BulkInvalidate(u)
  \/ \E u \in Users : BulkCommit(u)
  \/ \E u \in Users : BulkRollback(u)
  \/ Disconnect
  \/ Reconnect

SpecTransaction == InitTransaction /\ [][NextTransaction]_vars

\* C20: every step in which the cache invalidation of a todo mutation runs (of
\* create, update, delete, or of bulk update, bulk delete, reorder) has the
\* mutation's write committed: the account's committed rows are the new ones when
\* the invalidation is done, and the invalidation does not run in the mutation's
\* transaction while it is open.
C20_InvalidateAfterCommit ==
  [][\A u \in Users :
       /\ Write(u) => db'[u] > db[u]
       /\ BulkInvalidate(u) => (db'[u] > db[u] /\ trx'[u].pc = "idle")]_vars

\* ------------------------------------------------------ window specification
\* Login requests of one client spread over more than an hour: the counter
\* login_attempts:{ip} is read with get and written with set(key, n + 1, 3600).
\* The window length of each counter kept in Redis.
RateWindowOf(k) == IF k.p = "graphql" THEN GraphqlWindow ELSE HourSeconds

InitWindow == InitAt(AuthWindow * WindowQuarters)

NextWindow ==
  \/ \E c \in Clients, kind \in {"wrong", "unknown"} : PostLogin(c, kind)
  \/ Tick(AuthWindow)
  \/ Disconnect
  \/ Reconnect

SpecWindow == InitWindow /\ [][NextWindow]_vars

\* C21: the request that starts a counter's window leaves the counter at 1 with
\* its expiry at the request time plus the window length, and a later request
\* counted in the same window leaves that expiry where it was.
C21_WindowFixedAtFirst ==
  [][\A k \in RateKeys :
       /\ (~Live(store, k) /\ k \in DOMAIN store') =>
            (store'[k].val = 1 /\ store'[k].exp = now + RateWindowOf(k))
       /\ (Live(store, k) /\ k \in DOMAIN store' /\ store'[k].val > store[k].val) =>
            store'[k].exp = store[k].exp]_vars

\* ---------------------------------------------------- counting specification
\* Requests of one client counted by the limiters they pass: every request passes
\* `app.use(rateLimits.general)`; POST /api/auth/login then passes rateLimits.auth;
\* POST /api/auth/logout is declared as router.post('/logout', rateLimits.general,
\* authenticateToken, AuthController.logout) and passes the same limiter, with the
\* same key, a second time. All requests fall into one window.

\* POST /api/auth/login: rateLimits.general, rateLimits.auth, AuthController.login.
CountedLogin(c, kind) ==
  LET e == IF kind = "unknown" THEN 0 ELSE 1
      p == IF kind = "right" THEN users[1].pw ELSE OtherPassword(users[1].pw)
      g == Increment(general)
      l == Increment(limiter)
  IN /\ general.hits < MaxCounted
     /\ general' = g
     /\ IF g.hits > GeneralMax
          THEN /\ resp' = Response("login", e, 429, "RATE_LIMIT_EXCEEDED", NoToken, NoToken)
               /\ UNCHANGED <<limiter, store, users, issued>>
          ELSE /\ limiter' = l
               /\ IF l.hits > AuthMax
                    THEN /\ resp' = Response("login", e, 429, "RATE_LIMIT_EXCEEDED", NoToken, NoToken)
                         /\ UNCHANGED <<store, users, issued>>
                    ELSE Login(c, e, p)
     /\ hist' = Record(hist, kind, resp')
     /\ UNCHANGED <<now, horizon, isConnected, revokedOk, revokedUp, stalePw, regs, regHist, db,
                    reads, seen, ret, trx, peer, inFlight>>

\* POST /api/auth/logout: rateLimits.general (app), rateLimits.general (route),
\* authenticateToken, AuthController.logout.
CountedLogout(t) ==
  LET g1 == Increment(general)
      g2 == Increment(g1)
  IN /\ general.hits < MaxCounted
     /\ IF g1.hits > GeneralMax
          THEN /\ general' = g1
               /\ resp' = Response("logout", t.id, 429, "RATE_LIMIT_EXCEEDED", t, NoToken)
               /\ UNCHANGED <<store, revokedOk, revokedUp>>
          ELSE /\ general' = g2
               /\ IF g2.hits > GeneralMax
                    THEN /\ resp' = Response("logout", t.id, 429, "RATE_LIMIT_EXCEEDED", t, NoToken)
                         /\ UNCHANGED <<store, revokedOk, revokedUp>>
                    ELSE IF AuthenticateToken(t) # "OK"
                    THEN /\ resp' = Response("auth", t.id, 401, AuthenticateToken(t), t, NoToken)
                         /\ UNCHANGED <<store, revokedOk, revokedUp>>
                    ELSE /\ store' = RedisDel(RedisDel(Blacklist(store, t), SessionKey(t.id)),
                                              UserSessionKey(t.id))
                         /\ revokedOk' = revokedOk \cup {t}
                         /\ revokedUp' = IF isConnected THEN revokedUp \cup {t} ELSE revokedUp
                         /\ resp' = Response("logout", t.id, 200, "OK", t, NoToken)
     /\ UNCHANGED <<now, horizon, isConnected, users, issued, stalePw, limiter, hist, regs, regHist,
                    db, reads, seen, ret, trx, peer, inFlight>>

InitCount == InitAt(0)

NextCount ==
  \/ \E c \in Clients, kind \in {"wrong", "right", "unknown"} : CountedLogin(c, kind)
  \/ \E t \in issued : CountedLogout(t)
  \/ Disconnect
  \/ Reconnect

SpecCount == InitCount /\ [][NextCount]_vars

\* C22: one request adds exactly 1 to the counter of each limiter class it is
\* subject to, whatever its outcome: a login adds 1 to the general counter and 1 to
\* the authentication counter of the client, a logout adds 1 to the general counter.
C22_CountedOnce ==
  [][/\ \A c \in Clients, kind \in {"wrong", "right", "unknown"} :
          (hist'.kind = kind /\ CountedLogin(c, kind)) =>
            (general'.hits = general.hits + 1 /\ limiter'.hits = limiter.hits + 1)
     /\ \A t \in issued :
          (resp'.presented = t /\ CountedLogout(t)) => general'.hits = general.hits + 1]_vars

\* ----------------------------------------------------- workers specification
\* Two worker processes serve the login requests of one client. Each process has
\* loaded security.js on its own: createRateLimit chose its store while
\* redisManager.isConnected was still false (connect() runs later, in
\* Server.initialize), so each process counts the key `${ip}:auth` in its own
\* memory. Redis and the users table are common to both. One limiter window.

\* POST /api/auth/login served by the second worker.
PeerLogin(c, kind) ==
  LET e == IF kind = "unknown" THEN 0 ELSE 1
      p == IF kind = "right" THEN users[1].pw ELSE OtherPassword(users[1].pw)
      l == Increment(peer)
  IN /\ peer.hits < MaxPeerLogins
     /\ peer' = l
     /\ IF l.hits > AuthMax
          THEN /\ resp' = Response("login", e, 429, "RATE_LIMIT_EXCEEDED", NoToken, NoToken)
               /\ UNCHANGED <<store, users, issued>>
          ELSE Login(c, e, p)
     /\ hist' = Record(hist, kind, resp')
     /\ UNCHANGED <<now, horizon, isConnected, revokedOk, revokedUp, stalePw, limiter, regs,
                    regHist, db, reads, seen, ret, trx, general, inFlight>>

InitWorkers == InitAt(0)

NextWorkers ==
  \/ \E c \in Clients, kind \in {"wrong", "right", "unknown"} : PostLogin(c, kind)
  \/ \E c \in Clients, kind \in {"wrong", "right", "unknown"} : PeerLogin(c, kind)
  \/ Disconnect
  \/ Reconnect

SpecWorkers == InitWorkers /\ [][NextWorkers]_vars

\* C23: the client's requests are counted against one common counter and one limit
\* whichever worker serves them: once the two workers together have counted
\* AuthMax login requests of the client in the window, the next login request is
\* answered 429 RATE_LIMIT_EXCEEDED by either worker.
C23_OneCommonCounter ==
  [][\A c \in Clients, kind \in {"wrong", "right", "unknown"} :
       (/\ limiter.hits + peer.hits >= AuthMax
        /\ hist'.kind = kind
        /\ (PostLogin(c, kind) \/ PeerLogin(c, kind))) =>
         (resp'.status = 429 /\ resp'.code = "RATE_LIMIT_EXCEEDED")]_vars

\* ---------------------------------------------------- attempts specification
\* POST /api/auth/login requests on account 1 that run side by side. Every await of
\* AuthController.login lets another request run; the two that matter here are the
\* SELECT of User.findByEmail and the UPDATE of User.recordLoginAttempt, which
\* writes failed_login_attempts from the value the request's own SELECT returned.

\* The request up to the password check: the IP counter is read, the row is read,
\* a locked account is answered with 423.
LoginFind(r, kind) ==
  LET attempts == GetCount(store, LoginKey(1)) IN
  /\ logins[r].pc = "idle"
  /\ failures + Cardinality({q \in DOMAIN logins : logins[q].kind = "wrong"}) < MaxFailures
  /\ IF attempts >= LoginAttemptsMax THEN
       /\ resp' = Response("login", 1, 429, "LOGIN_RATE_LIMIT", NoToken, NoToken)
       /\ UNCHANGED logins
     ELSE IF IsLocked(users[1]) THEN
       /\ resp' = Response("login", 1, 423, "ACCOUNT_LOCKED", NoToken, NoToken)
       /\ UNCHANGED logins
     ELSE
       /\ logins' = [logins EXCEPT ![r] = [pc |-> "found", kind |-> kind,
                                           failed |-> users[1].failed,
                                           attempts |-> attempts]]
       /\ UNCHANGED resp
  /\ UNCHANGED <<now, horizon, isConnected, store, users, issued, revokedOk, revokedUp,
                 stalePw, limiter, hist, regs, regHist, db, reads, seen, ret, trx,
                 general, peer, failures, wt, rows, answers, resets, resetTokens>>

\* The rest of the request: recordLoginAttempt on the User instance the request
\* built from its SELECT, then the IP counter and the response.
LoginRecord(r) ==
  LET mine == [users[1] EXCEPT !.failed = logins[r].failed]
      token == GenerateJWT(1)
      s1 == RedisDel(RedisDel(store, UserKey(1)), LoginKey(1))
      s2 == RedisSet(s1, SessionKey(1), token, SessionTtl)
      s3 == RedisSet(s2, UserSessionKey(1), [ip |-> 1], SessionTtl)
  IN /\ logins[r].pc = "found"
     /\ logins' = [logins EXCEPT ![r] = NoLogin]
     /\ IF logins[r].kind = "wrong" THEN
          /\ users' = [users EXCEPT ![1] = RecordLoginAttempt(mine, FALSE, 1)]
          /\ store' = RedisSet(RedisDel(store, UserKey(1)), LoginKey(1),
                               logins[r].attempts + 1, HourSeconds)
          /\ failures' = failures + 1
          /\ resp' = Response("login", 1, 401, "INVALID_CREDENTIALS", NoToken, NoToken)
          /\ UNCHANGED issued
        ELSE
          /\ users' = [users EXCEPT ![1] = RecordLoginAttempt(mine, TRUE, 1)]
          /\ store' = s3
          /\ failures' = 0
          /\ issued' = issued \cup {token}
          /\ resp' = Response("login", 1, 200, "OK", NoToken, token)
     /\ UNCHANGED <<now, horizon, isConnected, revokedOk, revokedUp, stalePw, limiter,
                    hist, regs, regHist, db, reads, seen, ret, trx, general, peer, wt, rows, answers, resets, resetTokens>>

InitAttempts == InitAt(0)

NextAttempts ==
  \/ \E r \in 1..MaxConcurrent, kind \in {"wrong", "ok"} : LoginFind(r, kind)
  \/ \E r \in 1..MaxConcurrent : LoginRecord(r)

SpecAttempts == InitAttempts /\ [][NextAttempts]_vars

\* C25: whatever the interleaving of the login requests on an account, the stored
\* failed_login_attempts is never more than the failed logins recorded since the
\* last successful one and is at most one short of them, so that the account is
\* locked once six failed logins have been recorded.
C25_CounterTracksFailures ==
  /\ users[1].failed <= failures
  /\ failures - users[1].failed <= 1
  /\ failures >= LockThreshold + 1 => IsLocked(users[1])

\* ------------------------------------------------------ relock specification
\* The login requests of the attempts specification, and the thirty minutes of a
\* lock passing.
InitRelock == InitAt(LockSeconds)

NextRelock ==
  \/ NextAttempts
  \/ Tick(LockSeconds)

SpecRelock == InitRelock /\ [][NextRelock]_vars

\* C28: a lock that has expired with no successful login since leaves the counter
\* at 5 or more, so the next failed login sets a new lock of 30 minutes; and a
\* request answered ACCOUNT_LOCKED changes neither the counter nor locked_until.
C28_CounterOutlivesLock ==
  [][/\ (users'[1].lockedUntil # 0 /\ now' >= users'[1].lockedUntil) =>
          users'[1].failed >= LockThreshold
     /\ \A r \in 1..MaxConcurrent :
          (/\ users[1].lockedUntil # 0 /\ now >= users[1].lockedUntil
           /\ logins[r].kind = "wrong" /\ LoginRecord(r)) =>
            users'[1].lockedUntil = now + LockSeconds
     /\ (resp' # resp /\ resp'.code = "ACCOUNT_LOCKED") => users' = users]_vars

\* ------------------------------------------------------- retry specification
\* withTransaction(callback, maxRetries) as its loop runs: a call, the runs of the
\* callback (each in a transaction of its own, ended by commit or rollback) and the
\* backoff timers between them. The callback is one of the bulk operations of Todo:
\* it fails with an error of the database driver or of its own, or succeeds; the
\* cache invalidation it ends with may fail too, which invalidateUserCache and
\* RedisManager catch.

\* An error as withTransaction looks at it: error.code and the words of
\* error.message.
DbErrors ==
  { [code |-> "ECONNRESET", message |-> <<"read", "ECONNRESET">>],
    [code |-> "ETIMEDOUT",  message |-> <<"connect", "ETIMEDOUT">>],
    [code |-> "40P01",      message |-> <<"deadlock", "detected">>],
    [code |-> "23505",      message |-> <<"duplicate", "key", "value">>],
    [code |-> "none",       message |-> <<"No", "valid", "fields", "to", "update">>] }

\* The callback returned.
NoError == [code |-> "none", message |-> <<>>]

\* error.message.includes(word).
Includes(message, word) == \E i \in DOMAIN message : message[i] = word

\* isRetryable that holds for every error.
IsRetryableAlways(error) == error # NoError

\* isRetryable of withTransaction.
IsRetryable(error) ==
  \/ error.code = "ECONNRESET"
  \/ error.code = "ETIMEDOUT"
  \/ Includes(error.message, "deadlock")

\* withTransaction(callback, m) is called: retries = 0 and the loop is entered.
WithTransaction(m) ==
  /\ wt.pc \in {"idle", "done"}
  /\ wt' = [NoTransaction EXCEPT !.pc = "attempt", !.maxRetries = m]
  /\ UNCHANGED <<now, horizon, isConnected, store, users, issued, revokedOk, revokedUp,
                 stalePw, resp, limiter, hist, regs, regHist, db, reads, seen, ret, trx,
                 general, peer, logins, failures, rows, answers, resets, resetTokens>>

\* One pass of the loop body: db.transaction(), the callback, then commit and
\* return, or rollback and either the backoff or the throw. cacheFails says whether
\* the Redis calls of the callback failed.
RunCallback(error, cacheFails) ==
  LET log == Append(wt.log, [error |-> error, cache |-> cacheFails]) IN
  /\ wt.pc = "attempt"
  /\ wt.retries < wt.maxRetries
  /\ IF error = NoError THEN
       wt' = [wt EXCEPT !.pc = "done", !.log = log, !.commits = @ + 1,
                        !.outcome = "returned"]
     ELSE IF IsRetryable(error) /\ wt.retries < wt.maxRetries - 1 THEN
       wt' = [wt EXCEPT !.pc = "backoff", !.log = log, !.rollbacks = @ + 1,
                        !.retries = @ + 1, !.delay = 2 ^ (wt.retries + 1) * 100]
     ELSE
       wt' = [wt EXCEPT !.pc = "done", !.log = log, !.rollbacks = @ + 1,
                        !.outcome = "thrown", !.error = error]
  /\ UNCHANGED <<now, horizon, isConnected, store, users, issued, revokedOk, revokedUp,
                 stalePw, resp, limiter, hist, regs, regHist, db, reads, seen, ret, trx,
                 general, peer, logins, failures, rows, answers, resets, resetTokens>>

\* The backoff timer fires: `continue`.
BackoffElapsed ==
  /\ wt.pc = "backoff"
  /\ wt' = [wt EXCEPT !.pc = "attempt"]
  /\ UNCHANGED <<now, horizon, isConnected, store, users, issued, revokedOk, revokedUp,
                 stalePw, resp, limiter, hist, regs, regHist, db, reads, seen, ret, trx,
                 general, peer, logins, failures, rows, answers, resets, resetTokens>>

InitRetry == InitAt(0)

NextRetry ==
  \/ \E m \in 1..MaxRetriesArg : WithTransaction(m)
  \/ \E error \in DbErrors \cup {NoError}, cacheFails \in BOOLEAN :
       RunCallback(error, cacheFails)
  \/ BackoffElapsed

\* The callback settles and the timer fires.
SpecRetry ==
  /\ InitRetry /\ [][NextRetry]_vars
  /\ WF_vars(\E error \in DbErrors \cup {NoError}, cacheFails \in BOOLEAN :
               RunCallback(error, cacheFails))
  /\ WF_vars(BackoffElapsed)

Undefined == <<"undefined", 0>>
Null == <<"null", 0>>
NumberOf(n) == <<"number", n>>
StringOf(n) == <<"string", n>>
BooleanOf(b) == <<"boolean", IF b THEN 1 ELSE 0>>
\* The array of n tags.
ArrayOf(n) == <<"array", n>>
\* A Date instance and the ISO string JSON.stringify makes of it.
DateOf(n) == <<"Date", n>>
IsoOf(n) == <<"ISO string", n>>

\* data.name.
Prop(data, name) == IF name \in DOMAIN data THEN data[name] ELSE Undefined

\* The properties the constructor assigns and the column each is read from.
TodoProps ==
  {"id", "userId", "title", "completed", "dueDate", "completedAt", "tags",
   "createdAt", "updatedAt"}
ColumnOf(prop) ==
  CASE prop = "userId" -> "user_id"
    [] prop = "dueDate" -> "due_date"
    [] prop = "completedAt" -> "completed_at"
    [] prop = "createdAt" -> "created_at"
    [] prop = "updatedAt" -> "updated_at"
    [] OTHER -> prop

\* new Todo(data): every property is read from its column name.
NewTodo(data) == [prop \in TodoProps |-> Prop(data, ColumnOf(prop))]

\* Todo.toJSON: the properties under their own names.
ToJSON(todo) == [prop \in TodoProps |-> todo[prop]]

\* JSON.parse(JSON.stringify(value)) of a property value: a Date comes back as its
\* ISO string.
Reparsed(value) == IF value[1] = "Date" THEN IsoOf(value[2]) ELSE value

\* JSON.parse(JSON.stringify(todo)): toJSON is applied, undefined properties are
\* left out, the values are reparsed.
ReparsedTodo(todo) ==
  LET json == ToJSON(todo)
      kept == {prop \in DOMAIN json : json[prop] # Undefined}
  IN [prop \in kept |-> Reparsed(json[prop])]

ReparsedList(list) == [i \in DOMAIN list |-> ReparsedTodo(list[i])]

\* The rows the todos table can hold for account 1: one row, as the pg driver
\* returns it (timestamps as Date, jsonb as array).
TodoRows ==
  [ id : {NumberOf(1)}, user_id : {NumberOf(1)}, title : {StringOf(1)},
    completed : {BooleanOf(FALSE), BooleanOf(TRUE)},
    due_date : {Null, DateOf(1)}, completed_at : {Null, DateOf(2)},
    tags : {ArrayOf(0), ArrayOf(1)}, created_at : {DateOf(0)},
    updated_at : {DateOf(0), DateOf(2)} ]

\* The cache key of the operation for account 1 (default options, days = 7).
ListKey(op) == Key(op, 1, IF op = "upcoming_todos" THEN 7 ELSE 0)
\* The TTL each operation caches its list with.
ListTtlOf(op) ==
  CASE op = "todos" -> ListTtl
    [] op = "overdue_todos" -> 300
    [] OTHER -> 1800

\* Todo.findByUser / getOverdueTodos / getUpcomingTodos for account 1.
ReadList(op) ==
  /\ IF Hit(store, ListKey(op)) THEN
       LET list == [i \in DOMAIN store[ListKey(op)].val |->
                      NewTodo(store[ListKey(op)].val[i])]
       IN /\ answers' = [answers EXCEPT ![op].cached = list, ![op].hit = TRUE]
          /\ UNCHANGED store
     ELSE
       LET list == [i \in DOMAIN rows |-> NewTodo(rows[i])]
       IN /\ store' = RedisSet(store, ListKey(op), ReparsedList(list), ListTtlOf(op))
          /\ answers' = [answers EXCEPT ![op] =
                           [filled |-> list, cached |-> <<>>, hit |-> FALSE]]
  /\ UNCHANGED <<now, horizon, isConnected, users, issued, revokedOk, revokedUp,
                 stalePw, resp, limiter, hist, regs, regHist, db, reads, seen, ret, trx,
                 general, peer, logins, failures, wt, rows, resets, resetTokens>>

\* The table holds any one row when the server starts.
InitRoundTrip ==
  \E row \in TodoRows :
    /\ now = 0
    /\ horizon = 0
    /\ isConnected = TRUE
    /\ store = EmptyStore
    /\ users = [u \in Users |-> NewUserRow]
    /\ issued = {}
    /\ revokedOk = {}
    /\ revokedUp = {}
    /\ stalePw = {}
    /\ resp = Response("none", 0, 0, "NONE", NoToken, NoToken)
    /\ limiter = NoHits
    /\ hist = NoHistory
    /\ regs = [r \in 1..MaxRegs |-> IdleReg]
    /\ regHist = [together |-> FALSE, clean |-> TRUE]
    /\ db = [u \in Users |-> 0]
    /\ reads = [u \in Users |-> NoRead]
    /\ seen = NoSeen
    /\ ret = NoCall
    /\ trx = [u \in Users |-> NoTrx]
    /\ general = NoHits
    /\ peer = NoHits
    /\ logins = [r \in 1..MaxConcurrent |-> NoLogin]
    /\ failures = 0
    /\ wt = NoTransaction
    /\ rows = <<row>>
    /\ answers = NoAnswers
  /\ resets = [r \in 1..MaxResets |-> NoReset]
  /\ resetTokens = NoResetTokens

NextRoundTrip ==
  \/ \E op \in {"todos", "overdue_todos", "upcoming_todos"} : ReadList(op)
  \/ Disconnect
  \/ Reconnect

SpecRoundTrip == InitRoundTrip /\ [][NextRoundTrip]_vars

\* C27: with no write in between, a todo list answered from the cache holds Todo
\* objects with the same property values (userId, dueDate, completedAt, createdAt
\* and updatedAt included) as the list of the read that filled the entry.
C27_CacheRoundTrip ==
  \A op \in DOMAIN answers :
    answers[op].hit => answers[op].cached = answers[op].filled

\* ------------------------------------------------------- reset specification
\* POST /api/auth/forgot-password and POST /api/auth/reset-password for account 1.
\* resetPassword awaits the SELECT of findByPasswordResetToken, then the bcrypt
\* hash and the UPDATE of updatePassword; other requests run in between. The reset
\* tokens (UUIDs) are numbered in the order they are generated.

\* requestPasswordReset for the email of account 1: a new token replaces the one
\* in the row.
ForgotPassword ==
  LET generated == GetCount(store, ResetKey(1)) < ResetMax /\ users[1].active
      token == resetTokens.minted + 1
  IN /\ resetTokens.minted < MaxTokens
     /\ RequestPasswordReset(1, 1)
     /\ resetTokens' =
          IF generated
            THEN [resetTokens EXCEPT !.column = token, !.minted = token]
            ELSE resetTokens
     /\ UNCHANGED <<now, horizon, isConnected, issued, revokedOk, revokedUp, stalePw,
                    limiter, hist, regs, regHist, db, reads, seen, ret, trx, general,
                    peer, logins, failures, wt, rows, answers, resets>>

\* resetPassword up to its SELECT: the row whose password_reset_token is the token
\* sent and whose password_reset_expires is later than now.
ResetFind(r, token, newPassword) ==
  /\ resets[r].pc = "idle"
  /\ IF resetTokens.column = token /\ users[1].resetExp > now THEN
       /\ resets' = [resets EXCEPT ![r] =
                        [pc |-> "found", token |-> token, pw |-> newPassword]]
       /\ UNCHANGED resp
     ELSE
       /\ resp' = Response("reset_password", 0, 400, "INVALID_RESET_TOKEN", NoToken, NoToken)
       /\ UNCHANGED resets
  /\ UNCHANGED <<now, horizon, isConnected, store, users, issued, revokedOk, revokedUp,
                 stalePw, limiter, hist, regs, regHist, db, reads, seen, ret, trx,
                 general, peer, logins, failures, wt, rows, answers, resetTokens>>

\* The rest of resetPassword: updatePassword (UPDATE ... WHERE id), the session
\* keys are deleted, 200.
ResetUpdate(r) ==
  LET token == resets[r].token
      s1 == RedisDel(store, UserKey(1))
      s2 == DeletePatternExact(s1, SessionKey(1))
      s3 == DeletePatternExact(s2, UserSessionKey(1))
  IN /\ resets[r].pc = "found"
     /\ users' = [users EXCEPT ![1] = UpdatePasswordRow(@, resets[r].pw)]
     /\ store' = s3
     /\ resets' = [resets EXCEPT ![r] = NoReset]
     /\ resetTokens' =
          [resetTokens EXCEPT !.column = 0, !.accepted[token] = @ + 1]
     /\ resp' = Response("reset_password", 1, 200, "OK", NoToken, NoToken)
     /\ UNCHANGED <<now, horizon, isConnected, issued, revokedOk, revokedUp, stalePw,
                    limiter, hist, regs, regHist, db, reads, seen, ret, trx, general,
                    peer, logins, failures, wt, rows, answers>>

InitReset == InitAt(HourSeconds)

NextReset ==
  \/ ForgotPassword
  \/ \E r \in 1..MaxResets, token \in 1..MaxTokens, newPassword \in {0, 1} :
       ResetFind(r, token, newPassword)
  \/ \E r \in 1..MaxResets : ResetUpdate(r)
  \/ Tick(HourSeconds)
  \/ Disconnect
  \/ Reconnect

SpecReset == InitReset /\ [][NextReset]_vars

\* C29: a reset token is accepted by resetPassword at most once, also when two
\* requests with the token run at the same time: once a reset with the token has
\* succeeded, no other request with it is answered 200 or changes the password.
C29_TokenAcceptedOnce ==
  \A token \in 1..MaxTokens : resetTokens.accepted[token] <= 1

\* ----------------------------------------------------- session-record property
\* C30: between requests, whenever session:{id} is in Redis it holds a token that
\* was issued to the account and that authenticateToken accepts: not expired and
\* without a blacklist entry.
C30_SessionHoldsValidToken ==
  \A u \in SessionUsers :
    Live(store, SessionKey(u)) =>
      LET t == store[SessionKey(u)].val
      IN /\ t \in issued /\ t.id = u
         /\ ~JwtExpired(t)
         /\ ~Live(store, BlacklistKey(t))

====
